---- MODULE Spec2Model ----
(***************************************************************************)
(* QChat: the hybrid post-quantum envelope cipher (server/crypto.ts) and   *)
(* the server routes and storage that use it (server/routes.ts,            *)
(* server/storage.ts, server/websocket.ts).                                *)
(*                                                                         *)
(* Byte strings are symbolic terms [kind, n, len, args]: len is the byte   *)
(* length the code tests, kind/n/args say how the bytes were produced.     *)
(* The library primitives (ML-KEM-768, SHA-256, AES-256-GCM) are ideal:    *)
(* two byte strings are equal exactly when they were produced the same way.*)
(***************************************************************************)
EXTENDS Integers, Sequences, FiniteSets, TLC

VARIABLES
  \* ---- the cipher core, called directly (CryptoSpec)
  envelope,      \* the EncryptedData in hand: the last one encryptData returned, possibly altered since
  origin,        \* what that envelope was made from, and what was done to it
  result,        \* the outcome of the last encryptData / decryptData call
  \* ---- the server (Spec)
  users,         \* storage: users table, a sequence of rows; the id is the index
  rooms,         \* storage: rooms table
  roomMembers,   \* storage: room_members table
  messages,      \* storage: messages table
  documents,     \* storage: documents table
  wsUserId,      \* websocket: ws.userId of each connection (0: not authenticated)
  registering,   \* register requests between createUser and updateUserPublicKey: their user ids
  response,      \* the last HTTP response / websocket reply, with what the request was
  \* ---- calls in progress
  creating,      \* storage: the DbStorage.createRoom calls between their awaits
  process,       \* the server process: its HTTP server, database pool, timers and exit
  clock,         \* the millisecond new Date() reads
  registerCalls, \* register requests between their username check and createUser: their usernames
  \* ---- the websocket server's registry, and the browser's client
  clients,       \* websocket: WebSocketManager.clients, the connection of each user id (0: none)
  wsClosed,      \* websocket: the connections that have closed
  client         \* browser: the WebSocketClient of one page

cryptoVars == <<envelope, origin, result>>
callVars == <<creating, process, clock, registerCalls, client>>
wsVars == <<wsUserId, clients, wsClosed>>
serverVars == <<users, rooms, roomMembers, messages, documents, wsVars, registering, response,
                callVars>>
vars == <<envelope, origin, result, users, rooms, roomMembers, messages, documents,
          wsUserId, registering, response, creating, process, clock,
          registerCalls, clients, wsClosed, client>>

-----------------------------------------------------------------------------
(* Bounds of the model *)

NumKeyPairs == 2      \* keypairs the direct callers of the cipher core hold
NumRandom == 2        \* distinct outcomes of one randomBytes call
NumContents == 2      \* distinct plaintext contents
NumBits == 1          \* bit positions a tamperer may flip in one field
MaxUsers == 2         \* rows of the users table
MaxRooms == 1         \* rows of the rooms table
NumCodes == 2         \* distinct outcomes of generateRoomCode
MaxCreating == 2      \* createRoom calls in progress at one time
MaxSignals == 3       \* calls of shutdown
MaxClock == 1         \* milliseconds that pass
MaxOpen == 3          \* connections open at one time
MaxMembers == 2       \* rows of the room_members table
MaxMessages == 2      \* rows of the messages table
MaxSingles == 1       \* rows of the messages table before a direct send or a websocket message
MaxDocuments == 1     \* rows of the documents table
MaxConns == 1         \* websocket connections
NumGenerated == 1     \* keypairs clients got from POST /api/crypto/generate-keypair
NumFingerprintKeys == 60 \* byte strings of each length handed to getKeyFingerprint directly

-----------------------------------------------------------------------------
(* Byte strings *)

T(kind, n, len, args) == [kind |-> kind, n |-> n, len |-> len, args |-> args]

Nil == T("nil", 0, 0, <<>>)

\* ML-KEM-768 sizes: 384k+32, 768k+96, 32(du*k+dv) with k = 3, du = 10, dv = 4
PublicKeyLen == 384 * 3 + 32
SecretKeyLen == 768 * 3 + 96
CipherTextLen == 32 * (10 * 3 + 4)
SharedSecretLen == 32
TagLen == 16

MAX_DATA_SIZE == 10 * 1024 * 1024

\* plaintext bytes: content c, length len
Data(c, len) == T("data", c, len, <<>>)
\* bytes that are no output of the cipher core: junk j of length len
Raw(j, len) == T("raw", j, len, <<>>)
\* randomBytes(len): outcome r
randomBytes(len, r) == T("rand", r, len, <<>>)
\* b with bit i flipped (flipping the same bit again gives b back)
FlipBit(b, i) == IF b.kind = "flip" /\ b.n = i THEN b.args[1] ELSE T("flip", i, b.len, <<b>>)

-----------------------------------------------------------------------------
(* server/crypto.ts *)

\* the Error messages the module and its libraries throw
ErrKemLength == "ml_kem768: Uint8Array of invalid length"
ErrDataSize == "Data size exceeds maximum allowed size"
ErrKeyLength == "AES-256-GCM requires a 32-byte key"
ErrNonceLength == "GCM nonce must be 12 bytes"
ErrAuthTag == "Decryption failed: Authentication tag verification failed. Data may have been tampered with."

KeyLen == 32
NonceLen == 12
SeedLen == 64

\* the spec's error taxonomy over those messages
IsAuthenticationFailure(err) == err = ErrAuthTag
IsInvalidParameter(err) == err \in {ErrDataSize, ErrKeyLength, ErrNonceLength}
IsMalformedKey(err) == err = ErrKemLength

\* ml_kem768.keygen(seed)
generateKeyPair(seed) ==
  [publicKey |-> T("pk", 0, PublicKeyLen, <<seed>>),
   secretKey |-> T("sk", 0, SecretKeyLen, <<seed>>)]

\* the public key that belongs to a secret key
PublicOf(secretKey) == T("pk", 0, PublicKeyLen, secretKey.args)

\* ml_kem768.encapsulate(publicKey, seed): throws on a public key of the wrong length
encapsulate(publicKey, seed) ==
  IF publicKey.len # PublicKeyLen
  THEN [ok |-> FALSE, err |-> ErrKemLength, sharedSecret |-> Nil, ciphertext |-> Nil]
  ELSE [ok |-> TRUE, err |-> "",
        sharedSecret |-> T("ss", 0, SharedSecretLen, <<publicKey, seed>>),
        ciphertext |-> T("kemct", 0, CipherTextLen, <<publicKey, seed>>)]

\* ml_kem768.decapsulate(ciphertext, secretKey): throws on wrong lengths; a ciphertext that was
\* not encapsulated to this key's public key yields the implicit-rejection secret, no error
decapsulate(ciphertext, secretKey) ==
  IF secretKey.len # SecretKeyLen \/ ciphertext.len # CipherTextLen
  THEN [ok |-> FALSE, err |-> ErrKemLength, val |-> Nil]
  ELSE IF ciphertext.kind = "kemct" /\ secretKey.kind = "sk"
          /\ ciphertext.args[1] = PublicOf(secretKey)
       THEN [ok |-> TRUE, err |-> "", val |-> T("ss", 0, SharedSecretLen, ciphertext.args)]
       ELSE [ok |-> TRUE, err |-> "",
             val |-> T("rej", 0, SharedSecretLen, <<ciphertext, secretKey>>)]

sha256(x) == T("sha256", 0, 32, <<x>>)

\* gcm(key, nonce).encrypt(data): ciphertext || 16-byte tag
gcmEncrypt(key, nonce, data) == T("gcm", 0, data.len + TagLen, <<key, nonce, data>>)

\* gcm(key, nonce).decrypt(ciphertext): throws unless the tag verifies under (key, nonce)
gcmDecrypt(key, nonce, ciphertext) ==
  IF ciphertext.kind = "gcm" /\ ciphertext.args[1] = key /\ ciphertext.args[2] = nonce
  THEN [ok |-> TRUE, val |-> ciphertext.args[3]]
  ELSE [ok |-> FALSE, val |-> Nil]

\* aesGcmEncrypt with the ceiling exclusive: a plaintext of exactly MAX_DATA_SIZE is refused
aesGcmEncryptOffByOne(data, key, nonce) ==
  IF data.len >= MAX_DATA_SIZE THEN [ok |-> FALSE, err |-> ErrDataSize, val |-> Nil, trace |-> <<>>]
  ELSE IF key.len # KeyLen THEN [ok |-> FALSE, err |-> ErrKeyLength, val |-> Nil, trace |-> <<>>]
  ELSE IF nonce.len # NonceLen THEN [ok |-> FALSE, err |-> ErrNonceLength, val |-> Nil, trace |-> <<>>]
  ELSE [ok |-> TRUE, err |-> "", val |-> gcmEncrypt(key, nonce, data),
        trace |-> <<"gcm", "cipher.encrypt">>]

\* aesGcmEncrypt with the cipher instance created before the inputs are validated
aesGcmEncryptLateSizeCheck(data, key, nonce) ==
  IF data.len > MAX_DATA_SIZE THEN [ok |-> FALSE, err |-> ErrDataSize, val |-> Nil, trace |-> <<"gcm">>]
  ELSE IF key.len # KeyLen THEN [ok |-> FALSE, err |-> ErrKeyLength, val |-> Nil, trace |-> <<"gcm">>]
  ELSE IF nonce.len # NonceLen THEN [ok |-> FALSE, err |-> ErrNonceLength, val |-> Nil, trace |-> <<"gcm">>]
  ELSE [ok |-> TRUE, err |-> "", val |-> gcmEncrypt(key, nonce, data),
        trace |-> <<"gcm", "cipher.encrypt">>]

\* aesGcmEncrypt(data, key, nonce); trace lists the library calls made, in order
aesGcmEncrypt(data, key, nonce) ==
  IF data.len > MAX_DATA_SIZE THEN [ok |-> FALSE, err |-> ErrDataSize, val |-> Nil, trace |-> <<>>]
  ELSE IF key.len # KeyLen THEN [ok |-> FALSE, err |-> ErrKeyLength, val |-> Nil, trace |-> <<>>]
  ELSE IF nonce.len # NonceLen THEN [ok |-> FALSE, err |-> ErrNonceLength, val |-> Nil, trace |-> <<>>]
  ELSE [ok |-> TRUE, err |-> "", val |-> gcmEncrypt(key, nonce, data),
        trace |-> <<"gcm", "cipher.encrypt">>]

\* aesGcmDecrypt with the catch block returning the unauthenticated bytes instead of throwing
aesGcmDecryptTagIgnored(ciphertext, key, nonce) ==
  IF key.len # KeyLen THEN [ok |-> FALSE, err |-> ErrKeyLength, val |-> Nil, trace |-> <<>>]
  ELSE IF nonce.len # NonceLen THEN [ok |-> FALSE, err |-> ErrNonceLength, val |-> Nil, trace |-> <<>>]
  ELSE LET plaintext == gcmDecrypt(key, nonce, ciphertext)
       IN [ok |-> TRUE, err |-> "", trace |-> <<"gcm", "cipher.decrypt">>,
           val |-> IF plaintext.ok THEN plaintext.val ELSE Raw(0, ciphertext.len - TagLen)]

\* aesGcmDecrypt without the nonce length test
aesGcmDecryptNoNonceCheck(ciphertext, key, nonce) ==
  IF key.len # KeyLen THEN [ok |-> FALSE, err |-> ErrKeyLength, val |-> Nil, trace |-> <<>>]
  ELSE LET plaintext == gcmDecrypt(key, nonce, ciphertext)
       IN IF plaintext.ok
          THEN [ok |-> TRUE, err |-> "", val |-> plaintext.val, trace |-> <<"gcm", "cipher.decrypt">>]
          ELSE [ok |-> FALSE, err |-> ErrAuthTag, val |-> Nil, trace |-> <<"gcm", "cipher.decrypt">>]

\* aesGcmDecrypt(ciphertext, key, nonce)
aesGcmDecrypt(ciphertext, key, nonce) ==
  IF key.len # KeyLen THEN [ok |-> FALSE, err |-> ErrKeyLength, val |-> Nil, trace |-> <<>>]
  ELSE IF nonce.len # NonceLen THEN [ok |-> FALSE, err |-> ErrNonceLength, val |-> Nil, trace |-> <<>>]
  ELSE LET plaintext == gcmDecrypt(key, nonce, ciphertext)
       IN IF plaintext.ok
          THEN [ok |-> TRUE, err |-> "", val |-> plaintext.val, trace |-> <<"gcm", "cipher.decrypt">>]
          ELSE [ok |-> FALSE, err |-> ErrAuthTag, val |-> Nil, trace |-> <<"gcm", "cipher.decrypt">>]

NoEnvelope == [ciphertext |-> Nil, encapsulatedKey |-> Nil, nonce |-> Nil]

\* encryptData returning a newly drawn nonce instead of the one it sealed with
encryptDataOtherNonce(data, recipientPublicKey, r32, r12) ==
  LET kem == encapsulate(recipientPublicKey, randomBytes(32, r32))
      sealed == aesGcmEncrypt(data, sha256(kem.sharedSecret), randomBytes(NonceLen, r12))
  IN IF ~kem.ok
     THEN [ok |-> FALSE, err |-> kem.err, env |-> NoEnvelope,
           trace |-> <<"randomBytes", "ml_kem768.encapsulate">>]
     ELSE IF ~sealed.ok
     THEN [ok |-> FALSE, err |-> sealed.err, env |-> NoEnvelope,
           trace |-> <<"randomBytes", "ml_kem768.encapsulate", "sha256", "randomBytes">> \o sealed.trace]
     ELSE [ok |-> TRUE, err |-> "",
           trace |-> <<"randomBytes", "ml_kem768.encapsulate", "sha256", "randomBytes">> \o sealed.trace,
           env |-> [ciphertext |-> sealed.val, encapsulatedKey |-> kem.ciphertext,
                    nonce |-> randomBytes(NonceLen, r32)]]

\* encryptData taking the encapsulation seed from the plaintext and a constant nonce
encryptDataDeterministic(data, recipientPublicKey, r32, r12) ==
  LET kem == encapsulate(recipientPublicKey, sha256(data))
      nonce == Raw(0, NonceLen)
      sealed == aesGcmEncrypt(data, sha256(kem.sharedSecret), nonce)
      trace == <<"ml_kem768.encapsulate", "sha256">> \o sealed.trace
  IN IF ~kem.ok
     THEN [ok |-> FALSE, err |-> kem.err, env |-> NoEnvelope, trace |-> <<"ml_kem768.encapsulate">>]
     ELSE IF ~sealed.ok
     THEN [ok |-> FALSE, err |-> sealed.err, env |-> NoEnvelope, trace |-> trace]
     ELSE [ok |-> TRUE, err |-> "", trace |-> trace,
           env |-> [ciphertext |-> sealed.val, encapsulatedKey |-> kem.ciphertext,
                    nonce |-> nonce]]

\* encryptData(data, recipientPublicKey); r32 and r12 are the outcomes of the two randomBytes calls
encryptData(data, recipientPublicKey, r32, r12) ==
  LET kem == encapsulate(recipientPublicKey, randomBytes(32, r32))
  IN IF ~kem.ok
     THEN [ok |-> FALSE, err |-> kem.err, env |-> NoEnvelope,
           trace |-> <<"randomBytes", "ml_kem768.encapsulate">>]
     ELSE LET encryptionKey == sha256(kem.sharedSecret)
              nonce == randomBytes(NonceLen, r12)
              sealed == aesGcmEncrypt(data, encryptionKey, nonce)
              trace == <<"randomBytes", "ml_kem768.encapsulate", "sha256", "randomBytes">> \o sealed.trace
          IN IF ~sealed.ok
             THEN [ok |-> FALSE, err |-> sealed.err, env |-> NoEnvelope, trace |-> trace]
             ELSE [ok |-> TRUE, err |-> "", trace |-> trace,
                   env |-> [ciphertext |-> sealed.val, encapsulatedKey |-> kem.ciphertext,
                            nonce |-> nonce]]

\* decryptData(encrypted, secretKey)
decryptData(encrypted, secretKey) ==
  LET kem == decapsulate(encrypted.encapsulatedKey, secretKey)
  IN IF ~kem.ok
     THEN [ok |-> FALSE, err |-> kem.err, val |-> Nil, trace |-> <<"ml_kem768.decapsulate">>]
     ELSE LET encryptionKey == sha256(kem.val)
              opened == aesGcmDecrypt(encrypted.ciphertext, encryptionKey, encrypted.nonce)
          IN [ok |-> opened.ok, err |-> opened.err, val |-> opened.val,
              trace |-> <<"ml_kem768.decapsulate", "sha256">> \o opened.trace]


-----------------------------------------------------------------------------
(* getKeyFingerprint. A string it builds is a sequence of one-character strings.
   The digest bytes of sha256 are a fixed function of the input; which function it is
   plays no part, only that equal inputs give equal digests *)

KindCode(kind) ==
  CASE kind = "data" -> 1 [] kind = "raw" -> 2 [] kind = "rand" -> 3 [] kind = "flip" -> 4
    [] kind = "pk" -> 5 [] kind = "sk" -> 6 [] kind = "kemct" -> 7 [] kind = "ss" -> 8
    [] OTHER -> 9

RECURSIVE TermCode(_)
TermCode(x) ==
  LET arg(i) == IF i \in DOMAIN x.args THEN TermCode(x.args[i]) ELSE 0
  IN (KindCode(x.kind) + 7 * (x.n + 1024) + 13 * x.len + 31 * arg(1) + 37 * arg(2) + 41 * arg(3))
       % 65521

\* sha256(x) as its 32 bytes
sha256Bytes(x) == [i \in 1..32 |-> (TermCode(x) * (2 * i + 1) + 29 * i) % 256]

HexDigits == <<"0", "1", "2", "3", "4", "5", "6", "7", "8", "9", "a", "b", "c", "d", "e", "f">>

\* b.toString(16) of a byte: no leading zero
toString16(b) ==
  IF b < 16 THEN <<HexDigits[b + 1]>> ELSE <<HexDigits[(b \div 16) + 1], HexDigits[(b % 16) + 1]>>

\* s.padStart(2, '0')
padStart2(s) == IF Len(s) < 2 THEN <<"0">> \o s ELSE s

\* array.join(separator) of an array of strings
RECURSIVE join(_, _)
join(array, separator) ==
  IF array = <<>> THEN <<>>
  ELSE IF Len(array) = 1 THEN array[1]
  ELSE array[1] \o separator \o join(Tail(array), separator)

\* s.match(/.{1,4}/g): the blocks of four characters, the last one shorter if need be
RECURSIVE match4(_)
match4(s) ==
  IF s = <<>> THEN <<>>
  ELSE IF Len(s) <= 4 THEN <<s>>
  ELSE <<SubSeq(s, 1, 4)>> \o match4(SubSeq(s, 5, Len(s)))

\* getKeyFingerprint without the padStart
getKeyFingerprintUnpadded(publicKey) ==
  LET hash == sha256Bytes(publicKey)
      hex == join([i \in 1..16 |-> toString16(hash[i])], <<>>)
  IN join(match4(hex), <<" ">>)

\* getKeyFingerprint(publicKey)
getKeyFingerprint(publicKey) ==
  LET hash == sha256Bytes(publicKey)
      hex == join([i \in 1..16 |-> padStart2(toString16(hash[i]))], <<>>)
  IN join(match4(hex), <<" ">>)


-----------------------------------------------------------------------------
(* Text: the strings of request bodies and of the text columns.
   chars is the string's length, pad its number of trailing '=' *)

NullText == [kind |-> "null", chars |-> 0, pad |-> 0, bytes |-> Nil]

\* encodeBase64(data): Buffer.from(data).toString('base64')
encodeBase64(data) ==
  [kind |-> "b64", chars |-> 4 * ((data.len + 2) \div 3), pad |-> (3 - (data.len % 3)) % 3,
   bytes |-> data]

\* a string that is no base64 text: `chars` characters of the base64 alphabet, then others
JunkText(chars) == [kind |-> "junk", chars |-> chars, pad |-> 0, bytes |-> Nil]

\* decodeBase64(data): new Uint8Array(Buffer.from(data, 'base64')) never throws, it decodes the
\* base64 characters it finds
decodeBase64(text) ==
  IF text.kind = "b64"
  THEN [text.bytes EXCEPT !.len = (text.chars \div 4) * 3 - text.pad]
  ELSE Raw(2, (text.chars * 3) \div 4)

\* JavaScript truthiness of a string that may be undefined
Truthy(text) == text.kind # "null" /\ text.chars > 0


-----------------------------------------------------------------------------
(* The cipher core called directly: encryptData, then decryptData on the envelope it
   returned, as it is, with one bit flipped, or with one field of another length *)

\* the keypairs the callers hold: generateKeyPair() with its randomBytes(64) drawn
KeyPairs == {generateKeyPair(randomBytes(SeedLen, r)) : r \in 1..NumKeyPairs}

\* keys of a wrong byte length, one byte short or one byte long
WrongLength(len) == {Raw(1, len - 1), Raw(1, len + 1)}

PublicKeyInputs == {kp.publicKey : kp \in KeyPairs} \cup WrongLength(PublicKeyLen)
SecretKeyInputs == {kp.secretKey : kp \in KeyPairs} \cup WrongLength(SecretKeyLen)

\* plaintexts: empty, one byte, exactly the ceiling, one byte above it
DataLengths == {0, 1, MAX_DATA_SIZE, MAX_DATA_SIZE + 1}
Plaintexts == {Data(IF len = 0 THEN 0 ELSE c, len) : c \in 1..NumContents, len \in DataLengths}

EnvelopeFields == {"ciphertext", "encapsulatedKey", "nonce"}

NoResult == [op |-> "none", ok |-> FALSE, err |-> "", trace |-> <<>>, val |-> Nil,
             env |-> NoEnvelope, data |-> Nil, key |-> Nil]
NoOrigin == [data |-> Nil, publicKey |-> Nil, altered |-> "none"]

\* what a request was and how it was answered
NoResponse == [route |-> "none", status |-> 0, error |-> "", trace |-> <<>>,
               secretKey |-> NullText, stored |-> 0,
               senderId |-> 0, roomId |-> 0, id |-> 0, keyLen |-> 0, fingerprint |-> <<>>,
               contentLen |-> 0, userId |-> 0, limit |-> 0, found |-> <<>>,
               conn |-> 0, forwarded |-> {}, broadcast |-> "none", sentTo |-> {}]

\* the process after server.listen: the HTTP server accepts connections and the pool is open
Serving == [exitCode |-> -1, listening |-> TRUE, connections |-> 0, closed |-> FALSE,
            listeners |-> <<>>, pool |-> "open", timers |-> 0, timedOut |-> FALSE,
            signals |-> <<>>]

\* a page that has made no WebSocketClient yet: ws is this.ws, socket the state of the latest
\* WebSocket made, timer the delay of the pending setTimeout (0: none), sent the frame types
\* sent on the latest socket, delays the delays of the reconnects since the last open
NoClient == [ws |-> "null", socket |-> "none", reconnectAttempts |-> 0, userId |-> 0,
             timer |-> 0, sent |-> {}, delays |-> <<>>, userIdAtOpen |-> 0,
             disconnected |-> FALSE]

\* no createRoom call in progress
NoCall == [pc |-> "idle", code |-> 0, retries |-> 0]

ServerInit ==
  /\ users = <<>>
  /\ rooms = <<>>
  /\ roomMembers = <<>>
  /\ messages = <<>>
  /\ documents = <<>>
  /\ wsUserId = <<>>
  /\ registering = {}
  /\ response = NoResponse
  /\ creating = [c \in 1..MaxCreating |-> NoCall]
  /\ process = Serving
  /\ clock = 0
  /\ registerCalls = <<>>
  /\ clients = [u \in 1..MaxUsers |-> 0]
  /\ wsClosed = {}
  /\ client = NoClient

CryptoInit ==
  /\ envelope = NoEnvelope
  /\ origin = NoOrigin
  /\ result = NoResult
  /\ ServerInit

CallEncrypt ==
  \E data \in Plaintexts, publicKey \in PublicKeyInputs, r32 \in 1..NumRandom, r12 \in 1..NumRandom :
    LET out == encryptData(data, publicKey, r32, r12)
    IN /\ result' = [op |-> "encrypt", ok |-> out.ok, err |-> out.err, trace |-> out.trace,
                     val |-> Nil, env |-> out.env, data |-> data, key |-> publicKey]
       /\ envelope' = out.env
       /\ origin' = [data |-> data, publicKey |-> publicKey, altered |-> "none"]
       /\ UNCHANGED serverVars

\* someone flips one bit of one field of the envelope in hand
Tamper ==
  /\ envelope # NoEnvelope
  /\ origin.altered = "none"
  /\ \E field \in EnvelopeFields, i \in 1..NumBits :
       envelope' = [envelope EXCEPT ![field] = FlipBit(@, i)]
  /\ origin' = [origin EXCEPT !.altered = "flip"]
  /\ result' = NoResult
  /\ UNCHANGED serverVars

\* someone replaces one field of the envelope in hand by bytes of another length
Resize ==
  /\ envelope # NoEnvelope
  /\ origin.altered = "none"
  /\ \E field \in {"encapsulatedKey", "nonce"} :
       \E bytes \in WrongLength(envelope[field].len) :
         envelope' = [envelope EXCEPT ![field] = bytes]
  /\ origin' = [origin EXCEPT !.altered = "length"]
  /\ result' = NoResult
  /\ UNCHANGED serverVars

CallDecrypt ==
  /\ envelope # NoEnvelope
  /\ \E secretKey \in SecretKeyInputs :
       LET out == decryptData(envelope, secretKey)
       IN result' = [op |-> "decrypt", ok |-> out.ok, err |-> out.err, trace |-> out.trace,
                     val |-> out.val, env |-> envelope, data |-> Nil, key |-> secretKey]
  /\ UNCHANGED <<envelope, origin>>
  /\ UNCHANGED serverVars

CryptoNext == CallEncrypt \/ Tamper \/ Resize \/ CallDecrypt

CryptoSpec == CryptoInit /\ [][CryptoNext]_vars

\* the call was made with a keypair's own keys
IsKeyPairPublic(key) == key \in {kp.publicKey : kp \in KeyPairs}
IsKeyPairSecret(key) == key \in {kp.secretKey : kp \in KeyPairs}


-----------------------------------------------------------------------------
(* Properties of the cipher core (CryptoSpec) *)

\* C1: decrypting an unaltered envelope made for keypair Kb with the secret key of another
\* keypair Ka fails with the authentication failure, and returns no plaintext at all
C1_WrongKeyRejected ==
  (/\ result.op = "decrypt"
   /\ origin.altered = "none"
   /\ IsKeyPairPublic(origin.publicKey)
   /\ IsKeyPairSecret(result.key)
   /\ PublicOf(result.key) # origin.publicKey)
  => (~result.ok /\ IsAuthenticationFailure(result.err) /\ result.val = Nil)

C1_Witness ==
  /\ result.op = "decrypt"
  /\ origin.altered = "none"
  /\ IsKeyPairPublic(origin.publicKey)
  /\ IsKeyPairSecret(result.key)
  /\ PublicOf(result.key) # origin.publicKey
  /\ result.err = ErrAuthTag

\* C2: after one bit of the ciphertext, the encapsulated key or the nonce of a valid envelope
\* is flipped, decrypting with the right secret key fails with the authentication failure
\* and returns no plaintext
C2_TamperDetected ==
  (/\ result.op = "decrypt"
   /\ origin.altered = "flip"
   /\ IsKeyPairSecret(result.key)
   /\ PublicOf(result.key) = origin.publicKey)
  => (~result.ok /\ IsAuthenticationFailure(result.err) /\ result.val = Nil)

C2_Witness ==
  /\ result.op = "decrypt"
  /\ origin.altered = "flip"
  /\ envelope.nonce.kind = "flip"
  /\ IsKeyPairSecret(result.key)
  /\ PublicOf(result.key) = origin.publicKey
  /\ result.err = ErrAuthTag

\* C3: encryptData succeeds for every plaintext of 0 bytes up to the ceiling and every
\* keypair's public key, and decryptData with that keypair's secret key returns the plaintext
C3_RoundTrip ==
  /\ (result.op = "encrypt" /\ IsKeyPairPublic(result.key) /\ result.data.len <= MAX_DATA_SIZE)
       => result.ok
  /\ (/\ result.op = "decrypt"
      /\ origin.altered = "none"
      /\ IsKeyPairSecret(result.key)
      /\ PublicOf(result.key) = origin.publicKey)
       => (result.ok /\ result.val = origin.data)

C3_Witness ==
  /\ result.op = "decrypt"
  /\ origin.altered = "none"
  /\ origin.data.len = MAX_DATA_SIZE
  /\ result.ok
  /\ result.val = origin.data

\* C7: with a keypair's public key, encryptData of 10 MiB + 1 byte fails with the
\* invalid-parameter error (the size message) and encryptData of exactly 10 MiB succeeds
C7_SizeCeiling ==
  (result.op = "encrypt" /\ IsKeyPairPublic(result.key))
  => /\ result.data.len = MAX_DATA_SIZE + 1
          => (~result.ok /\ result.err = ErrDataSize /\ IsInvalidParameter(result.err)
              /\ result.env = NoEnvelope)
     /\ result.data.len = MAX_DATA_SIZE
          => (result.ok /\ result.env.ciphertext.len = MAX_DATA_SIZE + TagLen)

C7_Witness ==
  /\ result.op = "encrypt"
  /\ IsKeyPairPublic(result.key)
  /\ result.data.len = MAX_DATA_SIZE + 1
  /\ result.err = ErrDataSize

\* C8 as claimed: when encryptData rejects a plaintext above the ceiling, nothing was called
\* before the rejection: no randomBytes, no encapsulation, no sha256, no cipher
C8_NoWorkBeforeSizeError ==
  (result.op = "encrypt" /\ result.err = ErrDataSize) => result.trace = <<>>

\* C8 as the code has it: when encryptData rejects a plaintext above the ceiling, the cipher
\* was neither created nor called, but the encapsulation (with its randomBytes), the key
\* derivation and the nonce's randomBytes have already run
C8_SizeErrorBeforeCipher ==
  (result.op = "encrypt" /\ result.data.len > MAX_DATA_SIZE /\ IsKeyPairPublic(result.key))
  => /\ result.err = ErrDataSize
     /\ \A i \in 1..Len(result.trace) : result.trace[i] \notin {"gcm", "cipher.encrypt"}
     /\ result.trace = <<"randomBytes", "ml_kem768.encapsulate", "sha256", "randomBytes">>

C8_Witness ==
  /\ result.op = "encrypt"
  /\ result.data.len > MAX_DATA_SIZE
  /\ result.err = ErrDataSize
  /\ Len(result.trace) = 4

\* C9: encryptData with a public key of the wrong length, and decryptData with a secret key,
\* an encapsulated key or a nonce of the wrong length, fail with the malformed-key or the
\* invalid-parameter error and return nothing
C9_LengthsRejected ==
  /\ (result.op = "encrypt" /\ result.key.len # PublicKeyLen)
       => (/\ ~result.ok
           /\ (IsMalformedKey(result.err) \/ IsInvalidParameter(result.err))
           /\ result.env = NoEnvelope)
  /\ (/\ result.op = "decrypt"
      /\ \/ result.key.len # SecretKeyLen
         \/ result.env.encapsulatedKey.len # CipherTextLen
         \/ result.env.nonce.len # NonceLen)
       => (/\ ~result.ok
           /\ (IsMalformedKey(result.err) \/ IsInvalidParameter(result.err))
           /\ result.val = Nil)

C9_Witness ==
  /\ result.op = "decrypt"
  /\ result.key.len = SecretKeyLen
  /\ result.env.nonce.len # NonceLen
  /\ result.err = ErrNonceLength


-----------------------------------------------------------------------------
(* server/storage.ts (DbStorage over the tables of shared/schema.ts) and server/routes.ts.
   Row ids are indices; 0 stands for null / undefined. *)

Respond(route, status) == [NoResponse EXCEPT !.route = route, !.status = status]

\* the keypair the register request that creates user row id generated: a randomBytes(64)
\* outcome no other request gets
RegisteredKeyPair(id) == generateKeyPair(randomBytes(SeedLen, id))
\* the keypairs POST /api/crypto/generate-keypair returns
GeneratedKeyPair(g) == generateKeyPair(randomBytes(SeedLen, 0 - g))

Usernames == {"alice", "bob"}

\* what clients send as publicKey / recipientPublicKey: a generated public key, or something else
ClientKeyTexts == {encodeBase64(GeneratedKeyPair(g).publicKey) : g \in 1..NumGenerated}
                    \cup {JunkText(10)}

\* what clients send as secretKey: the one they got at registration or generation, or something else
ClientSecretTexts == {encodeBase64(RegisteredKeyPair(id).secretKey) : id \in 1..MaxUsers}
                       \cup {encodeBase64(GeneratedKeyPair(g).secretKey) : g \in 1..NumGenerated}
                       \cup {JunkText(10)}

\* message text: Buffer.from(content, 'utf-8') of an ASCII string has the string's length
MessageContents == {Data(1, 19)}

userExists(id) == id \in DOMAIN users
roomExists(id) == id \in DOMAIN rooms

\* DbStorage.getUserByUsername
getUserByUsername(username) == {i \in DOMAIN users : users[i].username = username}

\* DbStorage.getRoomMembers: the rows of the room, in insertion order
getRoomMembers(roomId) == SelectSeq(roomMembers, LAMBDA m : m.roomId = roomId)

\* DbStorage.updateUserPublicKey
updateUserPublicKey(id, publicKey) ==
  IF userExists(id) THEN [users EXCEPT ![id].publicKey = publicKey] ELSE users

\* register storing the other half of the keypair
RegisterStoredSecretKey(keypair) == encodeBase64(keypair.secretKey)

\* the public key text POST /api/auth/register stores for the new user
RegisterStoredKey(keypair) == encodeBase64(keypair.publicKey)

\* POST /api/auth/register up to the await of createUser (users.username is unique)
RegisterCreate ==
  \E username \in Usernames \cup {""} :
    IF username = ""
    THEN /\ response' = Respond("register", 400)
         /\ UNCHANGED <<users, registering>>
    ELSE IF getUserByUsername(username) # {}
    THEN /\ response' = Respond("register", 409)
         /\ UNCHANGED <<users, registering>>
    ELSE /\ Len(users) < MaxUsers
         /\ users' = Append(users, [username |-> username, publicKey |-> NullText])
         /\ registering' = registering \cup {Len(users) + 1}
         /\ UNCHANGED response

\* POST /api/auth/register from updateUserPublicKey to the response
RegisterStoreKey ==
  \E id \in registering :
    LET keypair == RegisteredKeyPair(id)
    IN /\ users' = updateUserPublicKey(id, RegisterStoredKey(keypair))
       /\ registering' = registering \ {id}
       /\ response' = [Respond("register", 200) EXCEPT
                         !.id = id, !.secretKey = encodeBase64(keypair.secretKey),
                         !.fingerprint = getKeyFingerprint(keypair.publicKey)]

\* the fingerprint field of a user in a response: null for a user without a public key
UserFingerprint(user) ==
  IF Truthy(user.publicKey) THEN getKeyFingerprint(decodeBase64(user.publicKey)) ELSE <<>>

\* the fingerprint of the key the user row held when the route read it
UpdatedFingerprintOfRowRead(id, publicKey) == UserFingerprint(users[id])

\* the fingerprint PUT /api/users/:id/public-key answers with: that of the key in the body
UpdatedFingerprint(id, publicKey) == getKeyFingerprint(decodeBase64(publicKey))

\* PUT /api/users/:id/public-key
UpdatePublicKey ==
  \E id \in 1..MaxUsers, publicKey \in ClientKeyTexts \cup {NullText} :
    /\ UNCHANGED registering
    /\ IF ~Truthy(publicKey)
       THEN response' = Respond("public-key", 400) /\ UNCHANGED users
       ELSE IF ~userExists(id)
       THEN response' = Respond("public-key", 404) /\ UNCHANGED users
       ELSE /\ users' = updateUserPublicKey(id, publicKey)
            /\ response' = [Respond("public-key", 200) EXCEPT
                              !.id = id, !.fingerprint = UpdatedFingerprint(id, publicKey)]

\* the password a client registers a username with, and logs in with
PasswordOf(username) == <<"password of", username>>

\* POST /api/auth/login
Login ==
  \E username \in Usernames \cup {""}, password \in {PasswordOf(u) : u \in Usernames} :
    IF username = ""
    THEN response' = Respond("login", 400)
    ELSE IF \A id \in getUserByUsername(username) : PasswordOf(users[id].username) # password
    THEN response' = Respond("login", 401)
    ELSE \E id \in getUserByUsername(username) :
           response' = [Respond("login", 200) EXCEPT
                          !.id = id, !.fingerprint = UserFingerprint(users[id])]

\* GET /api/users/:id
GetUser ==
  \E id \in 1..MaxUsers :
    IF ~userExists(id)
    THEN response' = Respond("users", 404)
    ELSE response' = [Respond("users", 200) EXCEPT
                        !.id = id, !.fingerprint = UserFingerprint(users[id])]

\* POST /api/crypto/generate-keypair
GenerateKeypair ==
  \E g \in 1..NumGenerated :
    response' = [Respond("generate-keypair", 200) EXCEPT
                   !.secretKey = encodeBase64(GeneratedKeyPair(g).secretKey)]

\* DbStorage.addRoomMember: room_members.room_id and user_id reference rooms and users
addRoomMemberAllowed(roomId, userId) == roomExists(roomId) /\ userExists(userId)

\* the outcomes of generateRoomCode: 8 characters out of 36, here one of NumCodes codes
RoomCodes == 1..NumCodes

\* DbStorage.getRoomByCode, as a test
getRoomByCode(code) == \E i \in DOMAIN rooms : rooms[i].code = code

\* the row createRoom builds
RoomRow(code) == [isGroup |-> TRUE, code |-> code]

insertRoomUnconstrained(code) == [ok |-> TRUE, rooms |-> Append(rooms, RoomRow(code))]

\* db.insert(rooms): rooms.code is declared unique, the insert of a code some row holds throws
insertRoom(code) ==
  IF getRoomByCode(code) THEN [ok |-> FALSE, rooms |-> rooms]
  ELSE [ok |-> TRUE, rooms |-> Append(rooms, RoomRow(code))]

\* DbStorage.createRoom run from its first line to its last with no other call in between:
\* the loop leaves with a code no row holds, or every code it drew is held and it throws
createRoom ==
  {insertRoom(code) : code \in {c \in RoomCodes : ~getRoomByCode(c)}}
    \cup (IF rooms = <<>> THEN {} ELSE {[ok |-> FALSE, rooms |-> rooms]})

\* POST /api/rooms: createRoom, then addRoomMember for each member given
CreateRoom ==
  \E named \in BOOLEAN, members \in {<<>>} \cup {<<u>> : u \in 1..MaxUsers}, created \in createRoom :
    IF ~named
    THEN response' = Respond("rooms", 400) /\ UNCHANGED <<rooms, roomMembers>>
    ELSE IF ~created.ok
    THEN response' = Respond("rooms", 500) /\ UNCHANGED <<rooms, roomMembers>>
    ELSE /\ Len(rooms) < MaxRooms
         /\ Len(roomMembers) + Len(members) <= MaxMembers
         /\ rooms' = created.rooms
         /\ IF \A i \in DOMAIN members : userExists(members[i])
            THEN /\ roomMembers' = roomMembers \o
                      [i \in DOMAIN members |-> [roomId |-> Len(rooms) + 1, userId |-> members[i]]]
                 /\ response' = [Respond("rooms", 200) EXCEPT !.roomId = Len(rooms) + 1]
            ELSE /\ UNCHANGED roomMembers
                 /\ response' = Respond("rooms", 500)

\* POST /api/rooms/:roomId/members
AddRoomMember ==
  \E roomId \in 1..MaxRooms, userId \in 0..MaxUsers :
    IF userId = 0
    THEN response' = Respond("members", 400) /\ UNCHANGED roomMembers
    ELSE IF ~addRoomMemberAllowed(roomId, userId)
    THEN response' = Respond("members", 500) /\ UNCHANGED roomMembers
    ELSE /\ Len(roomMembers) < MaxMembers
         /\ roomMembers' = Append(roomMembers, [roomId |-> roomId, userId |-> userId])
         /\ response' = [Respond("members", 200) EXCEPT !.roomId = roomId]


\* a request body that departs from a complete one in at most one of the listed ways
AtMostOne(departures) == Cardinality({i \in DOMAIN departures : departures[i]}) <= 1

\* the byte length of the key a request body carries (0: the body has none)
KeyLenOf(text) == IF Truthy(text) THEN decodeBase64(text).len ELSE 0

\* a messages row holding an envelope
MessageRow(senderId, recipientId, roomId, encrypted) ==
  [senderId |-> senderId, recipientId |-> recipientId, roomId |-> roomId,
   encryptedContent |-> encodeBase64(encrypted.ciphertext),
   encapsulatedKey |-> encodeBase64(encrypted.encapsulatedKey),
   nonce |-> encodeBase64(encrypted.nonce), timestamp |-> clock, isRead |-> FALSE]

\* DbStorage.createMessage(s): messages.sender_id and recipient_id reference users
createMessagesAllowed(rows) ==
  \A i \in DOMAIN rows :
    /\ userExists(rows[i].senderId)
    /\ rows[i].recipientId = 0 \/ userExists(rows[i].recipientId)

\* the members of a room send that get a copy: the rows of other users who have a public key
RoomRecipients(senderId, roomId) ==
  SelectSeq(getRoomMembers(roomId),
            LAMBDA m : m.userId # senderId /\ Truthy(users[m.userId].publicKey))

\* POST /api/messages, room branch from the sender's copy on: the batch handed to createMessages,
\* or the failure of one encryptData call. The randomBytes outcomes of the k-th row written to
\* the table are k: no two rows share them
RoomBatch(senderId, roomId, content) ==
  LET base == Len(messages)
      senderEncrypted ==
        encryptData(content, decodeBase64(users[senderId].publicKey), base + 1, base + 1)
      recipients == RoomRecipients(senderId, roomId)
      memberEncrypted(j) ==
        encryptData(content, decodeBase64(users[recipients[j].userId].publicKey),
                    base + 1 + j, base + 1 + j)
  IN [threw |-> ~senderEncrypted.ok \/ \E j \in DOMAIN recipients : ~memberEncrypted(j).ok,
      rows |-> <<MessageRow(senderId, 0, roomId, senderEncrypted.env)>> \o
               [j \in DOMAIN recipients |->
                  MessageRow(senderId, recipients[j].userId, roomId, memberEncrypted(j).env)]]

\* DbStorage.createMessages: the i-th row of a batch gets the time of the call plus i
\* milliseconds, counting from 0
createMessages(rows) == [i \in DOMAIN rows |-> [rows[i] EXCEPT !.timestamp = clock + (i - 1)]]

\* wsManager.broadcastMessage(message, recipientId, roomId): the class WebSocketManager has no
\* method of that name, the call throws a TypeError inside the route's try block
broadcastMessage == "TypeError"

\* the status POST /api/messages answers once the rows are stored: the catch block answers 500
\* when the broadcast throws
statusAfterBroadcast == IF broadcastMessage = "TypeError" THEN 500 ELSE 200

\* POST /api/messages with a roomId
SendRoomMessage ==
  \E senderId \in 0..MaxUsers, roomId \in 1..MaxRooms, content \in MessageContents \cup {Data(0, 0)} :
    LET answer(status) ==
          [Respond("messages", status) EXCEPT !.senderId = senderId, !.roomId = roomId]
    IN IF senderId = 0 \/ content.len = 0
       THEN response' = answer(400) /\ UNCHANGED messages
       ELSE IF Len(getRoomMembers(roomId)) = 0
       THEN response' = answer(400) /\ UNCHANGED messages
       ELSE IF ~userExists(senderId) \/ ~Truthy(users[senderId].publicKey)
       THEN response' = answer(400) /\ UNCHANGED messages
       ELSE LET batch == RoomBatch(senderId, roomId, content)
            IN IF batch.threw \/ ~createMessagesAllowed(batch.rows)
               THEN response' = answer(500) /\ UNCHANGED messages
               ELSE /\ Len(messages) + Len(batch.rows) <= MaxMessages
                    /\ messages' = messages \o createMessages(batch.rows)
                    /\ response' = [answer(statusAfterBroadcast) EXCEPT
                                      !.stored = Len(batch.rows), !.id = Len(messages) + 1]

\* POST /api/messages with a recipientId and no roomId
SendDirectMessage ==
  \E senderId \in 0..MaxUsers, recipientId \in 0..MaxUsers,
     content \in MessageContents \cup {Data(0, 0)},
     recipientPublicKey \in ClientKeyTexts \cup {NullText} :
    /\ AtMostOne(<<senderId = 0, content.len = 0, recipientId = 0>>)
    /\ LET answer(status) == [Respond("messages", status) EXCEPT
                                !.senderId = senderId, !.keyLen = KeyLenOf(recipientPublicKey)]
       IN IF senderId = 0 \/ content.len = 0 \/ recipientId = 0
          THEN response' = answer(400) /\ UNCHANGED messages
          ELSE IF ~Truthy(recipientPublicKey)
                  /\ (~userExists(recipientId) \/ ~Truthy(users[recipientId].publicKey))
          THEN response' = answer(400) /\ UNCHANGED messages
          ELSE LET publicKey == IF Truthy(recipientPublicKey)
                                THEN decodeBase64(recipientPublicKey)
                                ELSE decodeBase64(users[recipientId].publicKey)
                   encrypted == encryptData(content, publicKey, Len(messages) + 1, Len(messages) + 1)
                   row == MessageRow(senderId, recipientId, 0, encrypted.env)
               IN IF ~encrypted.ok \/ ~createMessagesAllowed(<<row>>)
                  THEN response' = answer(500) /\ UNCHANGED messages
                  ELSE /\ Len(messages) < MaxSingles
                       /\ messages' = Append(messages, row)
                       /\ response' = [answer(statusAfterBroadcast) EXCEPT
                                         !.stored = 1, !.id = Len(messages) + 1]

\* the EncryptedData a decrypt route builds from a stored row
StoredEnvelope(row) ==
  [ciphertext |-> decodeBase64(row.encryptedContent),
   encapsulatedKey |-> decodeBase64(row.encapsulatedKey),
   nonce |-> decodeBase64(row.nonce)]

\* POST /api/messages/:id/decrypt
DecryptMessage ==
  \E id \in 1..MaxMessages, secretKey \in ClientSecretTexts \cup {NullText} :
    LET answer(status) == [Respond("messages/decrypt", status) EXCEPT
                             !.id = id, !.keyLen = KeyLenOf(secretKey)]
    IN IF ~Truthy(secretKey) THEN response' = answer(400)
       ELSE IF id \notin DOMAIN messages THEN response' = answer(404)
       ELSE LET decrypted == decryptData(StoredEnvelope(messages[id]), decodeBase64(secretKey))
            IN IF decrypted.ok
               THEN response' = [answer(200) EXCEPT !.trace = decrypted.trace]
               ELSE response' = [answer(500) EXCEPT !.error = "Failed to decrypt message",
                                                    !.trace = decrypted.trace]


\* a body limit of 100mb
BodyLimitRaised == 100 * 1024 * 1024

\* express.json({ limit: '10mb' }): a larger body is answered 413 before any route runs
BodyLimit == 10 * 1024 * 1024

\* what clients upload: base64 text of a small file, and of a file one byte above the ceiling
DocumentContents == {encodeBase64(Data(2, 1)), encodeBase64(Data(2, MAX_DATA_SIZE + 1))}

\* POST /api/documents; the randomBytes outcomes of the k-th documents row are -k
UploadDocument ==
  \E uploaderId \in 0..MaxUsers, content \in DocumentContents,
     recipientPublicKey \in ClientKeyTexts \cup {NullText},
     size \in {1, MAX_DATA_SIZE + 1}, mimeAllowed \in BOOLEAN :
    /\ AtMostOne(<<uploaderId = 0, ~Truthy(recipientPublicKey), ~mimeAllowed,
                   content.chars > BodyLimit>>)
    /\ LET answer(status) == [Respond("documents", status) EXCEPT
                                !.senderId = uploaderId, !.keyLen = KeyLenOf(recipientPublicKey),
                                !.contentLen = decodeBase64(content).len]
       IN IF content.chars > BodyLimit
          THEN response' = answer(413) /\ UNCHANGED documents
          ELSE IF uploaderId = 0 \/ ~Truthy(content) \/ ~Truthy(recipientPublicKey)
          THEN response' = answer(400) /\ UNCHANGED documents
          ELSE IF size > 10 * 1024 * 1024 \/ ~mimeAllowed
          THEN response' = answer(400) /\ UNCHANGED documents
          ELSE LET k == Len(documents) + 1
                   encrypted == encryptData(decodeBase64(content), decodeBase64(recipientPublicKey),
                                            0 - k, 0 - k)
               IN IF ~encrypted.ok \/ ~userExists(uploaderId)
                  THEN /\ response' = [answer(500) EXCEPT !.trace = encrypted.trace]
                       /\ UNCHANGED documents
                  ELSE /\ Len(documents) < MaxDocuments
                       /\ documents' = Append(documents,
                            [uploaderId |-> uploaderId, size |-> size, deleted |-> FALSE,
                             encryptedContent |-> encodeBase64(encrypted.env.ciphertext),
                             encapsulatedKey |-> encodeBase64(encrypted.env.encapsulatedKey),
                             nonce |-> encodeBase64(encrypted.env.nonce)])
                       /\ response' = [answer(200) EXCEPT !.stored = 1, !.id = k,
                                                          !.trace = encrypted.trace]

\* DbStorage.getDocument
documentExists(id) == id \in DOMAIN documents /\ ~documents[id].deleted

\* DELETE /api/documents/:id
DeleteDocument ==
  \E id \in 1..MaxDocuments :
    /\ documents' = IF documentExists(id) THEN [documents EXCEPT ![id].deleted = TRUE]
                    ELSE documents
    /\ response' = [Respond("documents/delete", 200) EXCEPT !.id = id]

\* POST /api/documents/:id/decrypt
DecryptDocument ==
  \E id \in 1..MaxDocuments, secretKey \in ClientSecretTexts \cup {NullText} :
    LET answer(status) == [Respond("documents/decrypt", status) EXCEPT
                             !.id = id, !.keyLen = KeyLenOf(secretKey)]
    IN IF ~Truthy(secretKey) THEN response' = answer(400)
       ELSE IF ~documentExists(id) THEN response' = answer(404)
       ELSE LET decrypted == decryptData(StoredEnvelope(documents[id]), decodeBase64(secretKey))
            IN IF decrypted.ok
               THEN response' = [answer(200) EXCEPT !.trace = decrypted.trace]
               ELSE response' = [answer(500) EXCEPT !.error = "Failed to decrypt document",
                                                    !.trace = decrypted.trace]

\* WebSocketManager.handleConnection: one more connection, of at most limit
handleConnection(limit) ==
  /\ Len(wsUserId) < limit
  /\ wsUserId' = Append(wsUserId, 0)
  /\ UNCHANGED <<clients, wsClosed>>

\* websocket.ts: a client connects
WsConnect == handleConnection(MaxConns)

\* the connections that are open
wsOpen == DOMAIN wsUserId \ wsClosed

\* WebSocketManager.handleAuthenticate: the connection takes the userId the frame names, and
\* registerClient puts it in the registry under that userId and broadcasts 'online'
WsAuthenticate ==
  \E c \in wsOpen, userId \in 0..MaxUsers :
    IF userId = 0
    THEN /\ response' = [Respond("ws:authenticate", 400) EXCEPT
                           !.conn = c,
                           !.error = "userId and username required for authentication"]
         /\ UNCHANGED wsVars
    ELSE /\ wsUserId' = [wsUserId EXCEPT ![c] = userId]
         /\ clients' = [clients EXCEPT ![userId] = c]
         /\ UNCHANGED wsClosed
         /\ response' = [Respond("ws:authenticate", 200) EXCEPT
                           !.conn = c, !.senderId = userId, !.userId = userId,
                           !.broadcast = "online"]

\* the registry after the close handler of connection c: this.clients.delete(ws.userId)
wsClose(c) == [clients EXCEPT ![wsUserId[c]] = 0]

\* the 'close' event of a connection: when it has a userId, the registry entry of that userId
\* is deleted and 'offline' is broadcast
WsClose ==
  \E c \in wsOpen :
    /\ wsClosed' = wsClosed \cup {c}
    /\ UNCHANGED wsUserId
    /\ IF wsUserId[c] = 0
       THEN /\ UNCHANGED clients
            /\ response' = [Respond("ws:close", 0) EXCEPT !.conn = c]
       ELSE /\ clients' = wsClose(c)
            /\ response' = [Respond("ws:close", 0) EXCEPT
                              !.conn = c, !.userId = wsUserId[c], !.broadcast = "offline"]

\* WebSocketManager.sendToUser: the connections a frame for userId goes to
sendToUser(userId) ==
  IF userId # 0 /\ clients[userId] # 0 /\ clients[userId] \in wsOpen
  THEN {clients[userId]} ELSE {}

\* the envelope fields a websocket client puts in a 'message' frame: an envelope it made with
\* the same cipher for a generated key, or that envelope with one field that is no base64
\* text, or with one field of another length
ClientEnvelope == encryptData(Data(1, 19), GeneratedKeyPair(1).publicKey, 0, 0).env
WsEnvelopes ==
  LET good == [encryptedContent |-> encodeBase64(ClientEnvelope.ciphertext),
               encapsulatedKey |-> encodeBase64(ClientEnvelope.encapsulatedKey),
               nonce |-> encodeBase64(ClientEnvelope.nonce)]
  IN {good,
      [good EXCEPT !.nonce = JunkText(10)],
      [good EXCEPT !.encryptedContent = JunkText(10)],
      [good EXCEPT !.encapsulatedKey = encodeBase64(Raw(1, CipherTextLen - 1))]}

wsSenderOfFrame(c, senderId) == senderId

\* the senderId handleChatMessage gives createMessage: ws.userId, whatever the frame says
wsSender(c, senderId) == wsUserId[c]

\* the users handleChatMessage forwards a stored message to
wsForwarded(c, recipientId, roomId) ==
  IF recipientId # 0 THEN {recipientId}
  ELSE {getRoomMembers(roomId)[m].userId : m \in DOMAIN getRoomMembers(roomId)} \ {wsUserId[c]}

\* WebSocketManager.handleChatMessage: stores the frame's fields as they are; a senderId in
\* the frame is not read
WsChatMessage ==
  \E c \in wsOpen, senderId \in 0..MaxUsers, recipientId \in 0..MaxUsers,
     roomId \in 0..MaxRooms, data \in WsEnvelopes :
    /\ recipientId = 0 \/ roomId = 0
    /\ LET answer(status) == [Respond("ws:message", status) EXCEPT !.conn = c, !.userId = senderId]
       IN IF wsUserId[c] = 0
          THEN /\ response' = [answer(401) EXCEPT !.error = "Not authenticated"]
               /\ UNCHANGED messages
          ELSE LET row == [senderId |-> wsSender(c, senderId), recipientId |-> recipientId,
                           roomId |-> roomId,
                           encryptedContent |-> data.encryptedContent,
                           encapsulatedKey |-> data.encapsulatedKey, nonce |-> data.nonce,
                           timestamp |-> clock, isRead |-> FALSE]
               IN IF ~createMessagesAllowed(<<row>>)
                  THEN /\ response' = [answer(500) EXCEPT !.error = "Failed to send message"]
                       /\ UNCHANGED messages
                  ELSE /\ Len(messages) < MaxSingles
                       /\ messages' = Append(messages, row)
                       /\ response' = [answer(200) EXCEPT
                                         !.senderId = row.senderId, !.stored = 1,
                                         !.id = Len(messages) + 1,
                                         !.forwarded = wsForwarded(c, recipientId, roomId)]

Init ==
  /\ envelope = NoEnvelope
  /\ origin = NoOrigin
  /\ result = NoResult
  /\ ServerInit

\* the requests about users and keys
KeyRequests ==
  \/ (RegisterCreate /\ UNCHANGED <<cryptoVars, callVars, rooms, roomMembers, messages, documents, wsVars>>)
  \/ (RegisterStoreKey /\ UNCHANGED <<cryptoVars, callVars, rooms, roomMembers, messages, documents, wsVars>>)
  \/ (UpdatePublicKey /\ UNCHANGED <<cryptoVars, callVars, rooms, roomMembers, messages, documents, wsVars>>)

\* the requests about rooms and room messages
RoomRequests ==
  \/ (CreateRoom /\ UNCHANGED <<cryptoVars, callVars, users, registering, messages, documents, wsVars>>)
  \/ (AddRoomMember /\ UNCHANGED <<cryptoVars, callVars, users, registering, rooms, messages, documents, wsVars>>)
  \/ (SendRoomMessage /\ UNCHANGED <<cryptoVars, callVars, users, registering, rooms, roomMembers, documents, wsVars>>)

\* the requests that hand key material or envelopes to the server, or get them from it
EnvelopeRequests ==
  \/ (GenerateKeypair
        /\ UNCHANGED <<cryptoVars, callVars, users, registering, rooms, roomMembers, messages, documents, wsVars>>)
  \/ (SendDirectMessage /\ UNCHANGED <<cryptoVars, callVars, users, registering, rooms, roomMembers, documents, wsVars>>)
  \/ (DecryptMessage
        /\ UNCHANGED <<cryptoVars, callVars, users, registering, rooms, roomMembers, messages, documents, wsVars>>)
  \/ (UploadDocument /\ UNCHANGED <<cryptoVars, callVars, users, registering, rooms, roomMembers, messages, wsVars>>)
  \/ (DecryptDocument
        /\ UNCHANGED <<cryptoVars, callVars, users, registering, rooms, roomMembers, messages, documents, wsVars>>)

\* the websocket frames that store messages, and the decrypt request on what they stored
WsRequests ==
  \/ (WsConnect
        /\ UNCHANGED <<cryptoVars, callVars, users, registering, rooms, roomMembers, messages, documents, response>>)
  \/ (WsAuthenticate /\ UNCHANGED <<cryptoVars, callVars, users, registering, rooms, roomMembers, messages, documents>>)
  \/ (WsChatMessage /\ UNCHANGED <<cryptoVars, callVars, users, registering, rooms, roomMembers, documents, wsVars>>)
  \/ (DecryptMessage
        /\ UNCHANGED <<cryptoVars, callVars, users, registering, rooms, roomMembers, messages, documents, wsVars>>)

\* users, rooms and room sends
Next == KeyRequests \/ RoomRequests
Spec == Init /\ [][Next]_vars

\* users, direct sends, uploads and the decrypt routes
EnvelopeNext == KeyRequests \/ EnvelopeRequests
EnvelopeSpec == Init /\ [][EnvelopeNext]_vars

\* users, websocket messages and the message decrypt route
WsNext == KeyRequests \/ WsRequests
WsSpec == Init /\ [][WsNext]_vars

\* ---- room sends --------------------------------------------------------------------------

\* encapsulate accepts a stored key text when it decodes to PublicKeyLen bytes
WellFormedKey(text) == Truthy(text) /\ decodeBase64(text).len = PublicKeyLen
MalformedKey(text) == Truthy(text) /\ decodeBase64(text).len # PublicKeyLen

\* the envelope of a stored row was encapsulated to the key a key text decodes to
EncryptedTo(row, keyText) ==
  LET ct == decodeBase64(row.encapsulatedKey)
  IN ct.kind = "kemct" /\ ct.args[1] = decodeBase64(keyText)

\* the last answer is that of a room send that passed the route's validation
RoomSendAnswered ==
  response.route = "messages" /\ response.roomId # 0 /\ response.status # 400

\* the rows the answered send wrote to the messages table
SentRows ==
  IF response.route = "messages" /\ response.stored > 0
  THEN SubSeq(messages, response.id, response.id + response.stored - 1)
  ELSE <<>>

\* the users with a row in the room answered about
MemberIds(roomId) == {getRoomMembers(roomId)[i].userId : i \in DOMAIN getRoomMembers(roomId)}

\* the send stored the copy of member id: the sender's own copy has no recipient
CopyStored(id) ==
  \E i \in DOMAIN SentRows :
    /\ SentRows[i].roomId = response.roomId
    /\ SentRows[i].recipientId = (IF id = response.senderId THEN 0 ELSE id)
    /\ EncryptedTo(SentRows[i], users[id].publicKey)

\* C4: when a member of the room has a malformed public key, a room send still stores an
\* envelope for every other member whose key is well formed (the sender's own copy included):
\* the failure of one recipient does not abort the batch
C4_MalformedKeyIsolated ==
  (RoomSendAnswered
     /\ \E bad \in MemberIds(response.roomId) : MalformedKey(users[bad].publicKey))
  => \A id \in MemberIds(response.roomId) :
       WellFormedKey(users[id].publicKey) => CopyStored(id)

\* C5: a room send by one of the N members of a room stores exactly N envelopes: the sender's
\* own copy with no recipient, encrypted to the sender's key, and one for each other member,
\* encrypted to that member's key
C5_OneEnvelopePerMember ==
  (RoomSendAnswered /\ response.senderId \in MemberIds(response.roomId)
     /\ Len(getRoomMembers(response.roomId)) = Cardinality(MemberIds(response.roomId)))
  => /\ Len(SentRows) = Cardinality(MemberIds(response.roomId))
     /\ \A id \in MemberIds(response.roomId) : CopyStored(id)

\* ---- secret keys and the storage ------------------------------------------------------------

\* a byte string is a secret key, or was built from one
RECURSIVE HoldsSecretKey(_)
HoldsSecretKey(b) == b.kind = "sk" \/ \E i \in DOMAIN b.args : HoldsSecretKey(b.args[i])

\* a stored text field carries a secret key
TextHoldsSecretKey(text) == text.kind = "b64" /\ HoldsSecretKey(text.bytes)

\* a stored row with the three envelope fields carries a secret key
EnvelopeHoldsSecretKey(row) ==
  \/ TextHoldsSecretKey(row.encryptedContent)
  \/ TextHoldsSecretKey(row.encapsulatedKey)
  \/ TextHoldsSecretKey(row.nonce)

\* C6: no row of the users, messages or documents table contains a secret key; a response
\* carries a secret key only when it answers the request that generated that key
C6_NoStoredSecretKey ==
  /\ \A i \in DOMAIN users : ~TextHoldsSecretKey(users[i].publicKey)
  /\ \A i \in DOMAIN messages : ~EnvelopeHoldsSecretKey(messages[i])
  /\ \A i \in DOMAIN documents : ~EnvelopeHoldsSecretKey(documents[i])
  /\ Truthy(response.secretKey) =>
       \/ /\ response.route = "register"
          /\ response.secretKey = encodeBase64(RegisteredKeyPair(response.id).secretKey)
       \/ /\ response.route = "generate-keypair"
          /\ \E g \in 1..NumGenerated :
               response.secretKey = encodeBase64(GeneratedKeyPair(g).secretKey)

\* a message and a document are stored, a registered user's key is stored, and a decrypt request
\* that carried the matching secret key has been answered
C6_Witness ==
  /\ Len(messages) > 0 /\ Len(documents) > 0
  /\ \E i \in DOMAIN users : users[i].publicKey = encodeBase64(RegisteredKeyPair(i).publicKey)
  /\ response.route = "messages/decrypt" /\ response.status = 200

\* ---- stored envelopes that do not decode ----------------------------------------------------

\* a stored field is no base64 text, or decodes to a length its field cannot have
MalformedEnvelope(row) ==
  \/ row.encryptedContent.kind # "b64" \/ row.encapsulatedKey.kind # "b64"
  \/ row.nonce.kind # "b64"
  \/ decodeBase64(row.encryptedContent).len < TagLen
  \/ decodeBase64(row.encapsulatedKey).len # CipherTextLen
  \/ decodeBase64(row.nonce).len # NonceLen

\* the decrypt route has run decryptData on a stored message
MessageDecryptAnswered ==
  /\ response.route = "messages/decrypt"
  /\ response.status \notin {400, 404}
  /\ response.id \in DOMAIN messages

\* C10: a decrypt request on a stored message with a field that does not decode is refused with
\* an error of its own, other than the one of a failed decryption, and neither decapsulation
\* nor the cipher has been called
C10_MalformedEnvelopeRejected ==
  (MessageDecryptAnswered /\ MalformedEnvelope(messages[response.id]))
  => /\ response.status # 200
     /\ response.error \notin {"", "Failed to decrypt message"}
     /\ \A i \in DOMAIN response.trace :
          response.trace[i] \notin {"ml_kem768.decapsulate", "gcm", "cipher.decrypt"}

\* ---- the storage interface, called directly (StorageSpec) --------------------------------------

\* markMessageAsRead writing the row back without its nonce
markMessageAsReadRewritingRow(messageId) ==
  [i \in DOMAIN messages |->
     IF i = messageId THEN [messages[i] EXCEPT !.isRead = TRUE, !.nonce = NullText]
     ELSE messages[i]]

\* DbStorage.markMessageAsRead: update messages set is_read = true where id = messageId
markMessageAsRead(messageId) ==
  [i \in DOMAIN messages |->
     IF i = messageId THEN [messages[i] EXCEPT !.isRead = TRUE] ELSE messages[i]]

\* the envelope a caller hands to createMessage(s) or createDocument for the k-th stored row
InsertedEnvelope(k) == encryptData(Data(1, 19), GeneratedKeyPair(1).publicKey, k, k).env

\* DbStorage.createUser: users.username is unique, the insert of a taken name throws
CallCreateUser ==
  \E username \in Usernames :
    /\ getUserByUsername(username) = {}
    /\ Len(users) < MaxUsers
    /\ users' = Append(users, [username |-> username, publicKey |-> NullText])
    /\ UNCHANGED <<cryptoVars, callVars, rooms, roomMembers, messages, documents, wsVars,
                   registering, response>>

\* DbStorage.updateUserPublicKey
CallUpdateUserPublicKey ==
  \E id \in 1..MaxUsers, publicKey \in ClientKeyTexts :
    /\ users' = updateUserPublicKey(id, publicKey)
    /\ UNCHANGED <<cryptoVars, callVars, rooms, roomMembers, messages, documents, wsVars,
                   registering, response>>

\* DbStorage.createMessage
CallCreateMessage ==
  \E senderId \in 1..MaxUsers, recipientId \in 0..MaxUsers :
    LET row == MessageRow(senderId, recipientId, 0, InsertedEnvelope(Len(messages) + 1))
    IN /\ createMessagesAllowed(<<row>>)
       /\ Len(messages) < MaxSingles
       /\ messages' = Append(messages, row)
       /\ UNCHANGED <<cryptoVars, callVars, users, rooms, roomMembers, documents, wsVars,
                      registering, response>>

\* DbStorage.createMessages with a batch as the room branch builds it: the sender's copy, then
\* a copy for another user
CallCreateMessages ==
  \E senderId \in 1..MaxUsers, recipientId \in 1..MaxUsers, roomId \in 1..MaxRooms :
    LET rows == <<MessageRow(senderId, 0, roomId, InsertedEnvelope(Len(messages) + 1)),
                  MessageRow(senderId, recipientId, roomId, InsertedEnvelope(Len(messages) + 2))>>
    IN /\ senderId # recipientId
       /\ createMessagesAllowed(rows)
       /\ Len(messages) + Len(rows) <= MaxMessages
       /\ messages' = messages \o createMessages(rows)
       /\ UNCHANGED <<cryptoVars, callVars, users, rooms, roomMembers, documents, wsVars,
                      registering, response>>

\* DbStorage.markMessageAsRead
CallMarkMessageAsRead ==
  \E messageId \in 1..MaxMessages :
    /\ messages' = markMessageAsRead(messageId)
    /\ UNCHANGED <<cryptoVars, callVars, users, rooms, roomMembers, documents, wsVars,
                   registering, response>>

\* DbStorage.createRoom
CallCreateRoom ==
  /\ Len(rooms) < MaxRooms
  /\ \E created \in createRoom : rooms' = created.rooms
  /\ UNCHANGED <<cryptoVars, callVars, users, roomMembers, messages, documents, wsVars,
                 registering, response>>

\* DbStorage.addRoomMember
CallAddRoomMember ==
  \E roomId \in 1..MaxRooms, userId \in 1..MaxUsers :
    /\ addRoomMemberAllowed(roomId, userId)
    /\ Len(roomMembers) < MaxMembers
    /\ roomMembers' = Append(roomMembers, [roomId |-> roomId, userId |-> userId])
    /\ UNCHANGED <<cryptoVars, callVars, users, rooms, messages, documents, wsVars,
                   registering, response>>

\* DbStorage.createDocument: documents.uploader_id references users
CallCreateDocument ==
  \E uploaderId \in 1..MaxUsers :
    LET encrypted == InsertedEnvelope(0 - (Len(documents) + 1))
    IN /\ userExists(uploaderId)
       /\ Len(documents) < MaxDocuments
       /\ documents' = Append(documents,
            [uploaderId |-> uploaderId, size |-> 19, deleted |-> FALSE,
             encryptedContent |-> encodeBase64(encrypted.ciphertext),
             encapsulatedKey |-> encodeBase64(encrypted.encapsulatedKey),
             nonce |-> encodeBase64(encrypted.nonce)])
       /\ UNCHANGED <<cryptoVars, callVars, users, rooms, roomMembers, messages, wsVars,
                      registering, response>>

\* DbStorage.deleteDocument: delete from documents where id = id
CallDeleteDocument ==
  \E id \in 1..MaxDocuments :
    /\ documents' = IF documentExists(id) THEN [documents EXCEPT ![id].deleted = TRUE]
                    ELSE documents
    /\ UNCHANGED <<cryptoVars, callVars, users, rooms, roomMembers, messages, wsVars,
                   registering, response>>

StorageNext ==
  \/ CallCreateUser \/ CallUpdateUserPublicKey
  \/ CallCreateMessage \/ CallCreateMessages \/ CallMarkMessageAsRead
  \/ CallCreateRoom \/ CallAddRoomMember
  \/ CallCreateDocument \/ CallDeleteDocument
StorageSpec == Init /\ [][StorageNext]_vars

\* the three text columns that hold the envelope of a messages or documents row
EnvelopeColumns(row) == <<row.encryptedContent, row.encapsulatedKey, row.nonce>>

\* C11: no storage operation changes the envelope columns of an existing message or document;
\* a message row never goes away, and a document row goes away only in deleteDocument
C11_EnvelopesImmutable ==
  [][/\ \A i \in DOMAIN messages :
          /\ i \in DOMAIN messages'
          /\ EnvelopeColumns(messages'[i]) = EnvelopeColumns(messages[i])
     /\ \A i \in DOMAIN documents :
          /\ i \in DOMAIN documents'
          /\ EnvelopeColumns(documents'[i]) = EnvelopeColumns(documents[i])
          /\ documents[i].deleted => documents'[i].deleted
          /\ (~documents[i].deleted /\ documents'[i].deleted) => CallDeleteDocument]_vars

\* a message has been marked read, a document deleted, a user's key replaced and a member added
C11_Witness ==
  /\ \E i \in DOMAIN messages : messages[i].isRead
  /\ \E i \in DOMAIN documents : documents[i].deleted
  /\ \E i \in DOMAIN users : users[i].publicKey \in ClientKeyTexts
  /\ Len(roomMembers) > 0

\* ---- keys of a wrong length in request bodies ------------------------------------------------

\* C12: a send or upload request whose recipientPublicKey, or a decrypt request whose secretKey,
\* does not have the ML-KEM-768 length is answered with a 4xx status
C12_MalformedKeyAnswered4xx ==
  (\/ /\ response.route \in {"messages", "documents"}
      /\ response.keyLen \notin {0, PublicKeyLen}
   \/ /\ response.route \in {"messages/decrypt", "documents/decrypt"}
      /\ response.keyLen \notin {0, SecretKeyLen})
  => response.status \in 400..499

\* ---- key and nonce reuse ------------------------------------------------------------------------

\* the AES key an envelope was sealed under: sha256 of the secret its encapsulation carries
DerivedKeyOf(row) ==
  sha256(T("ss", 0, SharedSecretLen, decodeBase64(row.encapsulatedKey).args))

\* C13: any two stored envelopes come from different encapsulations and carry different nonces,
\* so no two share a (derived key, nonce) pair, also when they were made for the same public key
C13_NoKeyNonceReuse ==
  \A i, j \in DOMAIN messages :
    i # j =>
      /\ decodeBase64(messages[i].encapsulatedKey) # decodeBase64(messages[j].encapsulatedKey)
      /\ decodeBase64(messages[i].nonce) # decodeBase64(messages[j].nonce)
      /\ <<DerivedKeyOf(messages[i]), decodeBase64(messages[i].nonce)>>
           # <<DerivedKeyOf(messages[j]), decodeBase64(messages[j].nonce)>>

\* two envelopes of the same plaintext are stored that were made for the same public key
C13_Witness ==
  \E i, j \in DOMAIN messages :
    /\ i # j
    /\ decodeBase64(messages[i].encapsulatedKey).args[1]
         = decodeBase64(messages[j].encapsulatedKey).args[1]
    /\ decodeBase64(messages[i].encryptedContent).args[3]
         = decodeBase64(messages[j].encryptedContent).args[3]

\* ---- getKeyFingerprint called directly (FingerprintSpec) ------------------------------------

\* the keys handed to getKeyFingerprint: keypairs' public keys, and other byte strings of the
\* public key length and of one byte
FingerprintInputs ==
  {kp.publicKey : kp \in KeyPairs}
    \cup {Raw(j, len) : j \in 1..NumFingerprintKeys, len \in {1, PublicKeyLen}}

CallFingerprint ==
  /\ \E publicKey \in FingerprintInputs :
       result' = [NoResult EXCEPT !.op = "fingerprint", !.ok = TRUE, !.key = publicKey,
                                  !.val = getKeyFingerprint(publicKey)]
  /\ UNCHANGED <<envelope, origin, serverVars>>

FingerprintSpec == Init /\ [][CallFingerprint]_vars

\* the value of a hexadecimal digit
HexValue(c) == CHOOSE v \in 0..15 : HexDigits[v + 1] = c

\* C15: the fingerprint of a key is 39 characters: eight blocks of four lowercase hexadecimal
\* digits with one space between blocks, and the 32 digits are, two by two, the first 16 bytes
\* of the key's hash; it depends on nothing but the key
C15_FingerprintFormat ==
  result.op = "fingerprint" =>
    LET f == result.val
        at(m) == f[m + ((m - 1) \div 4)]
    IN /\ Len(f) = 39
       /\ \A p \in 1..39 :
            IF p % 5 = 0 THEN f[p] = " "
            ELSE \E v \in 0..15 : f[p] = HexDigits[v + 1]
       /\ \A k \in 1..16 :
            16 * HexValue(at(2 * k - 1)) + HexValue(at(2 * k)) = sha256Bytes(result.key)[k]
       /\ f = getKeyFingerprint(result.key)

\* the fingerprint of a key of the public key length whose hash has a byte below 16 among its
\* first 16 has been computed
C15_Witness ==
  /\ result.op = "fingerprint"
  /\ result.key.len = PublicKeyLen
  /\ \E k \in 1..16 : sha256Bytes(result.key)[k] < 16

\* ---- fingerprints in responses (KeySpec) ------------------------------------------------------

KeyNext ==
  \/ KeyRequests
  \/ (Login /\ UNCHANGED <<cryptoVars, callVars, users, registering, rooms, roomMembers, messages,
                           documents, wsVars>>)
  \/ (GetUser /\ UNCHANGED <<cryptoVars, callVars, users, registering, rooms, roomMembers, messages,
                             documents, wsVars>>)
KeySpec == Init /\ [][KeyNext]_vars

\* C14: the fingerprint a login, get-user or update-public-key response carries is
\* getKeyFingerprint of the public key the users table holds for that user, null when it holds
\* none
C14_FingerprintOfStoredKey ==
  (response.route \in {"login", "users", "public-key"} /\ response.status = 200)
  => response.fingerprint = UserFingerprint(users[response.id])

\* a user whose registered key was replaced has been answered about, with the fingerprint of
\* the replacing key
C14_Witness ==
  /\ response.route \in {"login", "users"} /\ response.status = 200
  /\ users[response.id].publicKey \in ClientKeyTexts
  /\ response.fingerprint # getKeyFingerprint(RegisteredKeyPair(response.id).publicKey)
  /\ response.fingerprint # <<>>

\* ---- the size of stored documents ---------------------------------------------------------------

-----------------------------------------------------------------------------
(* DbStorage.createRoom, await by await (RoomCodeSpec) *)

\* const maxRetries = 10
maxRetries == 10

\* the first lines of createRoom: a first code, no retry yet, and the first query is on its way
CreateRoomBegin(c) ==
  /\ creating[c].pc = "idle"
  /\ \E code \in RoomCodes :
       creating' = [creating EXCEPT ![c] = [pc |-> "loop", code |-> code, retries |-> 0]]
  /\ UNCHANGED <<cryptoVars, process, clock, registerCalls, client, users, rooms, roomMembers, messages, documents, wsVars,
                 registering, response>>

\* one turn of the loop, from the answer of getRoomByCode: no row holds the code, and the insert
\* is sent; or one holds it, another code is drawn, and either the next query is sent or, at
\* the tenth retry, the loop ends and the call throws
CreateRoomCheck(c) ==
  /\ creating[c].pc = "loop"
  /\ IF ~getRoomByCode(creating[c].code)
     THEN creating' = [creating EXCEPT ![c].pc = "insert"]
     ELSE \E code \in RoomCodes :
            creating' = [creating EXCEPT
                           ![c].code = code,
                           ![c].retries = @ + 1,
                           ![c].pc = IF creating[c].retries + 1 < maxRetries
                                     THEN "loop" ELSE "thrown"]
  /\ UNCHANGED <<cryptoVars, process, clock, registerCalls, client, users, rooms, roomMembers, messages, documents, wsVars,
                 registering, response>>

\* the insert reaches the database
CreateRoomInsert(c) ==
  /\ creating[c].pc = "insert"
  /\ LET inserted == insertRoom(creating[c].code)
     IN /\ rooms' = inserted.rooms
        /\ creating' = [creating EXCEPT ![c].pc = IF inserted.ok THEN "done" ELSE "thrown"]
  /\ UNCHANGED <<cryptoVars, process, clock, registerCalls, client, users, roomMembers, messages, documents, wsVars,
                 registering, response>>

\* the caller has the room, or the error
CreateRoomReturn(c) ==
  /\ creating[c].pc \in {"done", "thrown"}
  /\ creating' = [creating EXCEPT ![c] = NoCall]
  /\ UNCHANGED <<cryptoVars, process, clock, registerCalls, client, users, rooms, roomMembers, messages, documents, wsVars,
                 registering, response>>

RoomCodeNext ==
  \/ \E c \in 1..MaxCreating : CreateRoomBegin(c)
  \/ \E c \in 1..MaxCreating : CreateRoomCheck(c)
  \/ \E c \in 1..MaxCreating : CreateRoomInsert(c)
  \/ \E c \in 1..MaxCreating : CreateRoomReturn(c)

\* the event loop runs every continuation whose awaited query has been answered
RoomCodeSpec ==
  /\ Init /\ [][RoomCodeNext]_vars
  /\ \A c \in 1..MaxCreating : WF_vars(CreateRoomCheck(c)) /\ WF_vars(CreateRoomInsert(c))

\* call c is between its first line and its return or throw
InCreateRoom(c) == creating[c].pc \in {"loop", "insert"}

\* C17: no two rows of the rooms table hold the same invite code; a createRoom call draws at
\* most 10 further codes; it ends by storing one row whose code no row held, or by throwing
\* with the table as it was; and every call that has begun ends, however the calls interleave
C17_DistinctInviteCodes ==
  /\ [](\A i, j \in DOMAIN rooms : rooms[i].code = rooms[j].code => i = j)
  /\ [](\A c \in 1..MaxCreating : creating[c].retries <= maxRetries)
  /\ [][\A c \in 1..MaxCreating :
          /\ (InCreateRoom(c) /\ creating'[c].pc = "done")
             => /\ rooms' = Append(rooms, RoomRow(creating[c].code))
                /\ ~getRoomByCode(creating[c].code)
          /\ (InCreateRoom(c) /\ creating'[c].pc = "thrown") => rooms' = rooms
          /\ creating'[c].retries # creating[c].retries
             => creating[c].pc = "loop" \/ creating'[c] = NoCall]_vars
  /\ \A c \in 1..MaxCreating : InCreateRoom(c) ~> creating[c].pc \in {"done", "thrown"}

\* two calls raced for one code: one stored it and the other's insert was refused; and a call
\* has thrown after its tenth retry
C17_Witness ==
  /\ Len(rooms) > 0
  /\ \E c, d \in 1..MaxCreating :
       /\ creating[c].pc = "thrown" /\ creating[c].retries = maxRetries
       /\ creating[d].pc = "thrown" /\ creating[d].retries = 0

-----------------------------------------------------------------------------
(* The process and its shutdown (ShutdownSpec) *)

\* what makes the process call shutdown
Signals == {"SIGTERM", "SIGINT", "uncaughtException"}

Running == process.exitCode = -1

\* a client connects to the listening HTTP server
Connect ==
  /\ Running /\ process.listening
  /\ process.connections < MaxOpen
  /\ process' = [process EXCEPT !.connections = @ + 1]
  /\ UNCHANGED <<cryptoVars, creating, clock, registerCalls, client, users, rooms, roomMembers, messages, documents, wsVars,
                 registering, response>>

\* a connection ends
Disconnect ==
  /\ Running
  /\ process.connections > 0
  /\ process' = [process EXCEPT !.connections = @ - 1]
  /\ UNCHANGED <<cryptoVars, creating, clock, registerCalls, client, users, rooms, roomMembers, messages, documents, wsVars,
                 registering, response>>

\* shutdown(signal): server.close(callback) stops the listening and keeps the callback for the
\* 'close' event, with an error when the server was not listening any more; and a 30 s timer
\* is set
Shutdown ==
  /\ Running
  /\ process.timers < MaxSignals
  /\ \E signal \in Signals :
       process' = [process EXCEPT !.signals = Append(@, signal),
                                  !.listening = FALSE,
                                  !.listeners = Append(@, ~process.listening),
                                  !.timers = @ + 1]
  /\ UNCHANGED <<cryptoVars, creating, clock, registerCalls, client, users, rooms, roomMembers, messages, documents, wsVars,
                 registering, response>>

\* what the callbacks of server.close do, in the order they were given: one called with an
\* error exits at once with code 1; the others go on to closeDatabase
whenClosed(listeners) == IF \E i \in DOMAIN listeners : listeners[i] THEN 1 ELSE -1

\* the 'close' event: the server listens no more and its last connection has ended
ServerClosed ==
  /\ Running
  /\ ~process.listening /\ process.connections = 0
  /\ process.listeners # <<>>
  /\ process' = [process EXCEPT !.closed = TRUE,
                                !.listeners = <<>>,
                                !.pool = IF ~process.listeners[1] /\ @ = "open" THEN "ending" ELSE @,
                                !.exitCode = whenClosed(process.listeners)]
  /\ UNCHANGED <<cryptoVars, creating, clock, registerCalls, client, users, rooms, roomMembers, messages, documents, wsVars,
                 registering, response>>

\* closeDatabase: pool.end() is done, and the callback exits with code 0
PoolEnded ==
  /\ Running
  /\ process.pool = "ending"
  /\ process' = [process EXCEPT !.pool = "ended", !.exitCode = 0]
  /\ UNCHANGED <<cryptoVars, creating, clock, registerCalls, client, users, rooms, roomMembers, messages, documents, wsVars,
                 registering, response>>

\* a 30 s timer of shutdown fires
ForcedShutdown ==
  /\ Running
  /\ process.timers > 0
  /\ process' = [process EXCEPT !.timedOut = TRUE, !.exitCode = 1]
  /\ UNCHANGED <<cryptoVars, creating, clock, registerCalls, client, users, rooms, roomMembers, messages, documents, wsVars,
                 registering, response>>

ShutdownNext == Connect \/ Disconnect \/ Shutdown \/ ServerClosed \/ PoolEnded \/ ForcedShutdown

\* the event loop emits the event of a closed server, resumes after an ended pool, and fires a
\* timer that is due
ShutdownSpec ==
  /\ Init /\ [][ShutdownNext]_vars
  /\ WF_vars(ServerClosed) /\ WF_vars(PoolEnded) /\ WF_vars(ForcedShutdown)

\* C18: once shutdown was called the server accepts no connection; the pool is closed only
\* after the HTTP server has closed; the process exits with code 0 after both have closed, or
\* with code 1 after a 30 s timer has fired; and it exits, whatever signals it gets
C18_GracefulShutdown ==
  /\ [](process.signals # <<>> => ~process.listening)
  /\ [](process.pool # "open" => process.closed)
  /\ [](~Running => \/ process.exitCode = 0 /\ process.closed /\ process.pool = "ended"
                    \/ process.exitCode = 1 /\ process.timedOut)
  /\ (process.signals # <<>> ~> ~Running)

-----------------------------------------------------------------------------
(* The history of a room (HistorySpec) *)

\* a millisecond passes
Tick ==
  /\ clock < MaxClock
  /\ clock' = clock + 1
  /\ UNCHANGED <<cryptoVars, creating, process, registerCalls, client, users, rooms, roomMembers, messages, documents,
                 wsVars, registering, response>>

\* .where(eq(messages.roomId, roomId)).orderBy(desc(messages.timestamp)): the ids of the rows
\* of a room, latest timestamp first; rows of one timestamp come as they were inserted
RECURSIVE orderByTimestampDesc(_)
orderByTimestampDesc(ids) ==
  IF ids = {} THEN <<>>
  ELSE LET first == CHOOSE i \in ids :
                      \A j \in ids : \/ messages[j].timestamp < messages[i].timestamp
                                     \/ messages[j].timestamp = messages[i].timestamp /\ i <= j
       IN <<first>> \o orderByTimestampDesc(ids \ {first})

\* the filter on the copies made for userId: own rows addressed to nobody or to oneself, and
\* the rows of others addressed to userId
EncryptedFor(msg, userId) ==
  \/ msg.senderId = userId /\ (msg.recipientId = 0 \/ msg.recipientId = userId)
  \/ msg.senderId # userId /\ msg.recipientId = userId

\* the Set `seen`: a row is kept when no row before it has its sender and timestamp
RECURSIVE deduplicated(_, _)
deduplicated(ids, seen) ==
  IF ids = <<>> THEN <<>>
  ELSE LET key == <<messages[Head(ids)].senderId, messages[Head(ids)].timestamp>>
       IN IF key \in seen THEN deduplicated(Tail(ids), seen)
          ELSE <<Head(ids)>> \o deduplicated(Tail(ids), seen \cup {key})

\* .slice(0, limit)
slice(ids, limit) == SubSeq(ids, 1, IF limit < Len(ids) THEN limit ELSE Len(ids))

\* DbStorage.getMessagesByRoom; userId 0: none given
getMessagesByRoom(roomId, limit, userId) ==
  LET allMessages == orderByTimestampDesc({i \in DOMAIN messages : messages[i].roomId = roomId})
      userMessages == SelectSeq(allMessages, LAMBDA i : EncryptedFor(messages[i], userId))
  IN IF userId # 0 THEN slice(deduplicated(userMessages, {}), limit)
     ELSE slice(allMessages, limit)

\* GET /api/rooms/:roomId/messages
GetRoomMessages ==
  \E roomId \in 1..MaxRooms, limit \in 1..MaxMessages, userId \in 0..MaxUsers :
    response' = [Respond("rooms/messages", 200) EXCEPT
                   !.roomId = roomId, !.limit = limit, !.userId = userId,
                   !.found = getMessagesByRoom(roomId, limit, userId)]

\* registrations, rooms, room sends and the reading of a room
HistoryNext ==
  \/ (RegisterCreate /\ UNCHANGED <<cryptoVars, callVars, rooms, roomMembers, messages, documents, wsVars>>)
  \/ (RegisterStoreKey /\ UNCHANGED <<cryptoVars, callVars, rooms, roomMembers, messages, documents, wsVars>>)
  \/ (CreateRoom /\ UNCHANGED <<cryptoVars, callVars, users, registering, messages, documents, wsVars>>)
  \/ (AddRoomMember /\ UNCHANGED <<cryptoVars, callVars, users, registering, rooms, messages, documents, wsVars>>)
  \/ (SendRoomMessage /\ UNCHANGED <<cryptoVars, callVars, users, registering, rooms, roomMembers, documents, wsVars>>)
  \/ (GetRoomMessages
        /\ UNCHANGED <<cryptoVars, callVars, users, registering, rooms, roomMembers, messages, documents, wsVars>>)
  \/ Tick
HistorySpec == Init /\ [][HistoryNext]_vars

\* the group send a row comes from: the id of the latest sender's copy at or before the row
SendOf(i) == CHOOSE k \in 1..i : messages[k].recipientId = 0
                                 /\ \A l \in (k + 1)..i : messages[l].recipientId # 0

\* the group sends to a room of which a copy was made for userId
SendsFor(roomId, userId) ==
  {SendOf(i) : i \in {j \in DOMAIN messages :
                        messages[j].roomId = roomId /\ EncryptedFor(messages[j], userId)}}

\* C19: the answer to a user's reading of a room holds at most limit rows, latest timestamp
\* first, each a copy made for that user, no two of one group send, and as many as there are
\* group sends with a copy for that user, up to limit
C19_OneEnvelopePerSend ==
  (response.route = "rooms/messages" /\ response.userId # 0)
  => LET found == response.found
     IN /\ Len(found) <= response.limit
        /\ \A m, n \in DOMAIN found :
             m < n => messages[found[m]].timestamp >= messages[found[n]].timestamp
        /\ \A m \in DOMAIN found :
             /\ messages[found[m]].roomId = response.roomId
             /\ EncryptedFor(messages[found[m]], response.userId)
        /\ \A m, n \in DOMAIN found : SendOf(found[m]) = SendOf(found[n]) => m = n
        /\ \/ Len(found) = response.limit
           \/ Len(found) = Cardinality(SendsFor(response.roomId, response.userId))

-----------------------------------------------------------------------------
(* Websocket authentication (WsSpec) *)

\* the tables of the storage
tables == <<users, rooms, roomMembers, messages, documents>>

\* C20, on the steps that answer a 'message' frame: a frame on a connection that has not
\* authenticated is answered 'Not authenticated', and no table changes and nothing is
\* forwarded; and a row stored for a frame has the userId of its connection as senderId,
\* whatever senderId the frame carries
C20_WsSenderAuthenticated ==
  [][(response'.route = "ws:message" /\ response' # response)
     => LET c == response'.conn
        IN /\ wsUserId[c] = 0 => /\ response'.error = "Not authenticated"
                                 /\ response'.forwarded = {}
                                 /\ tables' = tables
           /\ messages' # messages
              => /\ wsUserId[c] # 0
                 /\ Len(messages') = Len(messages) + 1
                 /\ messages'[Len(messages')].senderId = wsUserId[c]]_vars

\* a frame that names another user as its sender was stored under the userId of its connection
C20_Witness ==
  /\ response.route = "ws:message" /\ response.stored = 1
  /\ response.userId \in DOMAIN users /\ response.userId # response.senderId
  /\ messages[response.id].senderId = wsUserId[response.conn]

\* how many connections the registry is checked with
MaxSockets == 2

\* index.ts / websocket.ts: several clients connect
WsConnectMany == handleConnection(MaxSockets)

\* storage.ts: `export const storage = new DbStorage()`; the Map `messages` is a private field
\* of MemStorage, the storage in use has no such field
storage == [messages |-> "undefined"]

\* WebSocketManager.getMessageSender: reads (storage as any).messages; without that Map the
\* answer is null (0), with it the senderId of the row
getMessageSender(messageId) ==
  IF storage.messages = "undefined" THEN 0
  ELSE IF messageId \in DOMAIN messages THEN messages[messageId].senderId ELSE 0

\* WebSocketManager.handleReadReceipt: nothing without ws.userId; else the row is marked read
\* and the sender getMessageSender finds is sent a 'read' event
WsReadReceipt ==
  \E c \in wsOpen, messageId \in 1..(MaxSingles + 1) :
    /\ wsUserId[c] # 0
    /\ messages' = markMessageAsRead(messageId)
    /\ response' = [Respond("ws:read", 200) EXCEPT
                      !.conn = c, !.id = messageId, !.userId = wsUserId[c],
                      !.sentTo = sendToUser(getMessageSender(messageId))]

\* registrations, connections, direct messages over the websocket and read receipts
ReceiptNext ==
  \/ (RegisterCreate /\ UNCHANGED <<cryptoVars, callVars, rooms, roomMembers, messages, documents, wsVars>>)
  \/ (RegisterStoreKey /\ UNCHANGED <<cryptoVars, callVars, rooms, roomMembers, messages, documents, wsVars>>)
  \/ (WsConnect
        /\ UNCHANGED <<cryptoVars, callVars, users, registering, rooms, roomMembers, messages, documents, response>>)
  \/ (WsAuthenticate /\ UNCHANGED <<cryptoVars, callVars, users, registering, rooms, roomMembers, messages, documents>>)
  \/ (WsChatMessage /\ UNCHANGED <<cryptoVars, callVars, users, registering, rooms, roomMembers, documents, wsVars>>)
  \/ (WsReadReceipt /\ UNCHANGED <<cryptoVars, callVars, users, registering, rooms, roomMembers, documents, wsVars>>)
ReceiptSpec == Init /\ [][ReceiptNext]_vars

\* the read receipt the server has just handled is for a stored message
ReadReceiptHandled ==
  /\ response.route = "ws:read"
  /\ response.id \in DOMAIN messages

\* C21: a 'read' frame of an authenticated client for an existing message sets isRead of that
\* message, isRead once true stays true, and the sender of the message, when connected, is
\* sent the 'read' event
C21_ReadReceiptDelivered ==
  /\ [](ReadReceiptHandled
          => /\ messages[response.id].isRead
             /\ sendToUser(messages[response.id].senderId) \subseteq response.sentTo)
  /\ [][\A i \in DOMAIN messages : messages[i].isRead => messages'[i].isRead]_vars

\* connections, authentications and closes of the websocket server
RegistryNext ==
  \/ (WsConnectMany
        /\ UNCHANGED <<cryptoVars, callVars, users, registering, rooms, roomMembers, messages, documents, response>>)
  \/ (WsAuthenticate /\ UNCHANGED <<cryptoVars, callVars, users, registering, rooms, roomMembers, messages, documents>>)
  \/ (WsClose /\ UNCHANGED <<cryptoVars, callVars, users, registering, rooms, roomMembers, messages, documents>>)
RegistrySpec == Init /\ [][RegistryNext]_vars

\* the open connections that are authenticated as userId
OpenConnectionsOf(userId) == {c \in wsOpen : wsUserId[c] = userId}

\* C25: a user with an open authenticated connection is in the registry, mapped to an open
\* connection of theirs, whatever the order of authentications and closes; 'offline' is
\* broadcast for a user only when no open authenticated connection of that user is left
C25_RegistryTracksOpenConnections ==
  /\ \A userId \in 1..MaxUsers :
       OpenConnectionsOf(userId) # {} => clients[userId] \in OpenConnectionsOf(userId)
  /\ response.broadcast = "offline" => OpenConnectionsOf(response.userId) = {}

(* The browser's WebSocketClient (ClientSpec) *)

maxReconnectAttempts == 5
reconnectDelay == 1000

\* the frame types the public methods of WebSocketClient send
ClientFrames == {"message", "typing", "read"}

reconnectDelayLinear(attempts) == reconnectDelay * attempts

\* the delay attemptReconnect waits after the attempts-th increment of the counter
reconnectDelayAfter(attempts) == reconnectDelay * 2 ^ (attempts - 1)

\* WebSocketClient.connect: this.ws = new WebSocket(wsUrl), with the handlers set
connect(cl) == [cl EXCEPT !.ws = "socket", !.socket = "connecting", !.sent = {}]

\* WebSocketClient.authenticate: keeps userId and username, sends nothing
authenticate(cl, userId) == [cl EXCEPT !.userId = userId]

\* ws.onopen: the counter is reset and, with user info, authenticate is called
onopen(cl) ==
  LET opened == [cl EXCEPT !.socket = "open", !.reconnectAttempts = 0, !.delays = <<>>,
                           !.userIdAtOpen = cl.userId]
  IN IF cl.userId # 0 THEN authenticate(opened, cl.userId) ELSE opened

\* WebSocketClient.attemptReconnect, called by ws.onclose
attemptReconnect(cl) ==
  IF cl.reconnectAttempts < maxReconnectAttempts
  THEN [cl EXCEPT !.reconnectAttempts = cl.reconnectAttempts + 1,
                  !.timer = reconnectDelayAfter(cl.reconnectAttempts + 1)]
  ELSE cl

\* WebSocketClient.send: a frame goes out only on an open socket this.ws still refers to
send(cl, frame) ==
  IF cl.ws # "null" /\ cl.socket = "open" THEN [cl EXCEPT !.sent = cl.sent \cup {frame}]
  ELSE cl

\* WebSocketClient.disconnect: this.ws.close() and this.ws = null; the handlers of the socket
\* stay as connect set them
disconnect(cl) ==
  IF cl.ws # "null"
  THEN [cl EXCEPT !.ws = "null",
                  !.socket = IF cl.socket \in {"connecting", "open"} THEN "closing"
                             ELSE cl.socket]
  ELSE cl

\* getWebSocketClient: the constructor calls connect
ClientNew ==
  /\ client.socket = "none"
  /\ client' = connect(client)

\* the page calls authenticate(userId, username) after a login
ClientAuthenticate ==
  \E userId \in 1..MaxUsers :
    /\ client.socket # "none"
    /\ client' = authenticate(client, userId)

\* the 'open' event of the latest socket
SocketOpen ==
  /\ client.socket = "connecting"
  /\ client' = onopen(client)

\* the 'close' event of the latest socket: the connection failed, was lost, or was closed
SocketClose ==
  /\ client.socket \in {"connecting", "open", "closing"}
  /\ client' = attemptReconnect([client EXCEPT !.socket = "closed"])

\* the setTimeout of attemptReconnect fires: connect
ClientTimer ==
  /\ client.timer # 0
  /\ client' = connect([client EXCEPT !.timer = 0, !.delays = Append(client.delays, client.timer)])

\* sendMessage, sendTyping, sendReadReceipt
ClientSend ==
  \E frame \in ClientFrames :
    /\ client.socket # "none"
    /\ client' = send(client, frame)

\* disconnectWebSocket: wsClient.disconnect()
ClientDisconnect ==
  /\ client.socket # "none"
  /\ client' = [disconnect(client) EXCEPT !.disconnected = TRUE]

\* what the client's steps leave alone
serverUnchanged ==
  UNCHANGED <<cryptoVars, creating, process, clock, registerCalls, users, rooms, roomMembers,
              messages, documents, wsVars, registering, response>>

ClientNext ==
  \/ (ClientNew /\ serverUnchanged)
  \/ (ClientAuthenticate /\ serverUnchanged)
  \/ (SocketOpen /\ serverUnchanged)
  \/ (SocketClose /\ serverUnchanged)
  \/ (ClientTimer /\ serverUnchanged)
  \/ (ClientSend /\ serverUnchanged)
  \/ (ClientDisconnect /\ serverUnchanged)
ClientSpec == Init /\ [][ClientNext]_vars

\* C22: since the last open the client has reconnected at most 5 times, the k-th time after
\* 1000 * 2^(k-1) ms; while a socket is open the counter is 0; after 5 reconnects without an
\* open, a close schedules no further reconnect
C22_ReconnectBackoff ==
  /\ Len(client.delays) <= 5
  /\ \A k \in DOMAIN client.delays : client.delays[k] = 1000 * 2 ^ (k - 1)
  /\ client.socket = "open" => client.reconnectAttempts = 0
  /\ (Len(client.delays) = 5 /\ client.socket = "closed") => client.timer = 0

\* the fifth reconnect has failed too
C22_Witness ==
  /\ Len(client.delays) = 5
  /\ client.socket = "closed"
  /\ ~client.disconnected

\* C23: a socket that was opened while the client held user info has carried an
\* 'authenticate' frame to the server
C23_Reauthenticated ==
  (client.socket = "open" /\ client.ws # "null" /\ client.userIdAtOpen # 0)
  => "authenticate" \in client.sent

\* C24: once disconnect has been called, the client makes no new socket
C24_NoConnectAfterDisconnect ==
  [][client.disconnected => ~(client'.socket = "connecting" /\ client.socket # "connecting")]_vars

\* ---- room sends that fail ---------------------------------------------------------------------

\* C26: a room send that is answered with a failure has stored no row: the messages table is
\* as it was before the request
C26_FailedSendStoresNothing ==
  [][(response' # response /\ response'.route = "messages" /\ response'.roomId # 0
        /\ response'.status # 200)
     => messages' = messages]_vars

(* Concurrent registrations, await by await (RegisterSpec) *)

\* how many register requests the server gets
MaxRegisterCalls == 3

\* DbStorage.createUser: db.insert(users); users.username is unique, so the insert of a taken
\* name throws
createUser(username) ==
  IF getUserByUsername(username) # {}
  THEN [threw |-> TRUE, users |-> users]
  ELSE [threw |-> FALSE, users |-> Append(users, [username |-> username, publicKey |-> NullText])]

\* the register requests that have not been answered yet
RegistersInProgress == {i \in DOMAIN registerCalls : registerCalls[i].pc # "done"}

\* POST /api/auth/register arrives with a username and a password: the route awaits
\* getUserByUsername
RegisterBegin ==
  \E username \in Usernames :
    /\ Len(registerCalls) < MaxRegisterCalls
    /\ registerCalls' = Append(registerCalls,
                               [pc |-> "check", username |-> username, id |-> 0, status |-> 0])
    /\ UNCHANGED <<users, response>>

\* getUserByUsername has answered: 409 for a taken name, else the keypair is generated and the
\* route awaits createUser
RegisterCheck ==
  \E i \in RegistersInProgress :
    /\ registerCalls[i].pc = "check"
    /\ UNCHANGED users
    /\ IF getUserByUsername(registerCalls[i].username) # {}
       THEN /\ registerCalls' = [registerCalls EXCEPT ![i].pc = "done", ![i].status = 409]
            /\ response' = [Respond("register", 409) EXCEPT !.error = "Username already taken"]
       ELSE /\ registerCalls' = [registerCalls EXCEPT ![i].pc = "create"]
            /\ UNCHANGED response

\* createUser has run: a throw goes to the catch block, else the route awaits
\* updateUserPublicKey
RegisterInsert ==
  \E i \in RegistersInProgress :
    /\ registerCalls[i].pc = "create"
    /\ LET created == createUser(registerCalls[i].username)
       IN /\ users' = created.users
          /\ IF created.threw
             THEN /\ registerCalls' = [registerCalls EXCEPT ![i].pc = "done", ![i].status = 500]
                  /\ response' = [Respond("register", 500) EXCEPT !.error = "Registration failed"]
             ELSE /\ registerCalls' = [registerCalls EXCEPT ![i].pc = "store",
                                                           ![i].id = Len(users) + 1]
                  /\ UNCHANGED response

\* updateUserPublicKey has run: the route answers with the user and the secret key
RegisterStore ==
  \E i \in RegistersInProgress :
    /\ registerCalls[i].pc = "store"
    /\ LET id == registerCalls[i].id
           keypair == RegisteredKeyPair(id)
       IN /\ users' = updateUserPublicKey(id, RegisterStoredKey(keypair))
          /\ registerCalls' = [registerCalls EXCEPT ![i].pc = "done", ![i].status = 200]
          /\ response' = [Respond("register", 200) EXCEPT
                            !.id = id, !.secretKey = encodeBase64(keypair.secretKey),
                            !.fingerprint = getKeyFingerprint(keypair.publicKey)]

\* what a step of a register request leaves alone
registerUnchanged ==
  UNCHANGED <<cryptoVars, creating, process, clock, client, rooms, roomMembers, messages,
              documents, wsVars, registering>>

RegisterNext ==
  \/ (RegisterBegin /\ registerUnchanged)
  \/ (RegisterCheck /\ registerUnchanged)
  \/ (RegisterInsert /\ registerUnchanged)
  \/ (RegisterStore /\ registerUnchanged)
RegisterSpec == Init /\ [][RegisterNext]_vars

\* C27: whatever the interleaving of register requests, no two users have one username, a
\* request that created no user was answered 409, and once every request is answered every
\* user has a stored public key
C27_ConcurrentRegistration ==
  /\ \A u, v \in DOMAIN users : users[u].username = users[v].username => u = v
  /\ \A i \in DOMAIN registerCalls :
       (registerCalls[i].pc = "done" /\ registerCalls[i].id = 0) => registerCalls[i].status = 409
  /\ RegistersInProgress = {} => \A u \in DOMAIN users : Truthy(users[u].publicKey)

\* ---- the public keys of the user store ----------------------------------------------------------

\* C28: after any sequence of register and update-public-key requests, every public key in the
\* user store decodes to an ML-KEM-768 public key of 1184 bytes, so that encryptData does not
\* fail on a key read from the store
C28_StoredKeysWellFormed ==
  \A id \in DOMAIN users :
    Truthy(users[id].publicKey)
      => /\ WellFormedKey(users[id].publicKey)
         /\ encryptData(Data(1, 19), decodeBase64(users[id].publicKey), 1, 1).ok
====
